---- MODULE Spec2Model ----
(***************************************************************************)
(* Model of pcbnew/trackitems/trackitems_common.cpp: the net-ordered track *)
(* list (BOARD::m_Track), the net head index (NETCODE_FIRST_TRACKITEM),    *)
(* the re-sort (TRACKITEMS::SortTracks) and the track cleaner              *)
(* (TRACKS_CLEANER).                                                       *)
(*                                                                         *)
(* A track item is an identifier 1..MaxItems; 0 is nullptr.  The list      *)
(* m_Track is the sequence of linked identifiers; Back()/Next() are the    *)
(* neighbours in that sequence and are nullptr for an unlinked item.       *)
(* The index m_netcode_first_trackitems is a sequence whose element i+1    *)
(* is the entry of netcode i.                                              *)
(***************************************************************************)
EXTENDS Integers, Sequences, FiniteSets, TLC

\* ------------------------------------------------------------------ bounds
MaxItems == 4
MaxNet == 2
MaxRuns == 2

Ids == 1..MaxItems
Nets == 0..MaxNet
NULL == 0

VARIABLES
    list,      \* m_Board->m_Track: sequence of linked item ids, head first
    trk,       \* id -> the item's fields
    idx,       \* m_netcode_first_trackitems
    last,      \* the last operation: its name, argument, result, list before
    pads,      \* the board's pads (position, netcode, layer set), in order
    zones,     \* the board's filled areas (position, layer, netcode)
    pc,        \* the statement of CleanupBoard that runs next
    opts,      \* the four arguments of CleanupBoard
    modified,  \* CleanupBoard's local variable
    log,       \* the passes CleanupBoard has called so far, in order
    removed,   \* the items m_commit was told are removed, in order
    changed,   \* the items m_commit was told are modified
    run,       \* the number of CleanupBoard calls that have returned
    snap,      \* the list and the end points when the current call began
    ret,       \* what the last CleanupBoard call returned
    rounds     \* the last deleteDanglingTracks call: the length of the list
               \* when it began and the number of items each round erased

listVars == <<list, trk, idx, last>>
cleanVars == <<pads, zones, pc, opts, modified, log, removed, changed, run, snap,
               ret, rounds>>
vars == <<list, trk, idx, last, pads, zones, pc, opts, modified, log, removed,
          changed, run, snap, ret, rounds>>

\* ------------------------------------------------------------- track items
\* A TRACK / VIA object.  type is "trace" or "via"; s, e are m_Start, m_End;
\* w is m_Width; layer is the trace's layer (a through via is on every
\* layer); net is the netcode; sop, eop, busy, flag0 are the state bits
\* START_ON_PAD, END_ON_PAD, BUSY, FLAG0; pads and conn are m_PadsConnected
\* (positions in the board's pad list) and m_TracksConnected, as sets.  m_Param is written and read by SortTracks alone
\* and is kept there.
Track(type, s, e, w, layer, net) ==
    [type |-> type, s |-> s, e |-> e, w |-> w, layer |-> layer, net |-> net,
     sop |-> FALSE, eop |-> FALSE, busy |-> FALSE,
     flag0 |-> FALSE, pads |-> {}, conn |-> {}]

\* the storage of an identifier that names no object
NoTrack == Track("none", <<0, 0>>, <<0, 0>>, 0, 0, 0)

\* the plain trace the list operations create for a netcode
PlainTrace(n) == Track("trace", <<0, 0>>, <<1, 0>>, 1, 1, n)

\* ---------------------------------------------------------------- the list
Pos(lst, x) ==
    IF \E p \in 1..Len(lst) : lst[p] = x
    THEN CHOOSE p \in 1..Len(lst) : lst[p] = x
    ELSE 0

Linked(lst, x) == Pos(lst, x) # 0

\* TRACK::Back()
Back(lst, x) ==
    LET p == Pos(lst, x) IN IF p > 1 THEN lst[p - 1] ELSE NULL

\* TRACK::Next()
Next_(lst, x) ==
    LET p == Pos(lst, x) IN IF p # 0 /\ p < Len(lst) THEN lst[p + 1] ELSE NULL

\* DLIST::GetLast()
GetLast(lst) == IF Len(lst) = 0 THEN NULL ELSE lst[Len(lst)]

\* m_Board->m_Track as a pointer: the first item
First(lst) == IF Len(lst) = 0 THEN NULL ELSE lst[1]

\* DLIST::Insert( item, before ): before the given item, at the end for nullptr
InsertBefore(lst, x, at) ==
    IF at = NULL
    THEN Append(lst, x)
    ELSE LET p == Pos(lst, at) IN
         SubSeq(lst, 1, p - 1) \o <<x>> \o SubSeq(lst, p, Len(lst))

\* DLIST::Remove( item )
\* a variant that fills the place of the item with the last item
Unlink_SwapLast(lst, x) ==
    LET p == Pos(lst, x) IN
    IF p = 0 THEN lst
    ELSE IF p = Len(lst) THEN SubSeq(lst, 1, p - 1)
    ELSE SubSeq(lst, 1, p - 1) \o <<lst[Len(lst)]>>
             \o SubSeq(lst, p + 1, Len(lst) - 1)

Unlink(lst, x) ==
    LET p == Pos(lst, x) IN
    IF p = 0 THEN lst
    ELSE SubSeq(lst, 1, p - 1) \o SubSeq(lst, p + 1, Len(lst))

\* -------------------------------------------------------- the net head index
\* the backward walk of GetAndSync: the item the walk stops at, or nullptr
RECURSIVE SyncWalk(_, _, _, _)
SyncWalk(lst, tr, item, n) ==
    IF item = NULL THEN NULL
    ELSE LET back_item == Back(lst, item) IN
         IF (back_item # NULL /\ tr[back_item].net < n)
            \/ (back_item = NULL /\ tr[item].net = n)
         THEN item
         ELSE SyncWalk(lst, tr, back_item, n)

\* NETCODE_FIRST_TRACKITEM::GetAndSync: the returned item and the index after
GetAndSync(lst, tr, ix, n) ==
    IF n < Len(ix)
    THEN LET item == SyncWalk(lst, tr, ix[n + 1], n) IN
         [ret |-> item,
          ix  |-> IF item # NULL THEN [ix EXCEPT ![n + 1] = item] ELSE ix]
    ELSE [ret |-> NULL, ix |-> ix]

\* NETCODE_FIRST_TRACKITEM::GetFirst
GetFirst(lst, tr, ix, n) == GetAndSync(lst, tr, ix, n)

\* the loop of GetBestInsertPoint over the netcodes after aNetCode
RECURSIVE NextNetScan(_, _, _, _)
NextNetScan(lst, tr, ix, netcode) ==
    IF netcode < Len(ix)
    THEN LET g == GetAndSync(lst, tr, ix, netcode)
             b == IF g.ret # NULL THEN Back(lst, g.ret) ELSE NULL
         IN  IF b # NULL
             THEN [ret |-> b, ix |-> g.ix]
             ELSE NextNetScan(lst, tr, g.ix, netcode + 1)
    ELSE [ret |-> NULL, ix |-> ix]

\* a variant without the test of aNetCode against the first item's netcode
GetBestInsertPoint_NoFirstTest(lst, tr, ix, n) ==
    LET first == First(lst)
        inner ==
            IF n # 0 /\ first # NULL
            THEN LET g == IF Len(ix) > n THEN GetAndSync(lst, tr, ix, n)
                          ELSE [ret |-> NULL, ix |-> ix]
                 IN  IF g.ret # NULL THEN g
                     ELSE LET s == NextNetScan(lst, tr, g.ix, n + 1) IN
                          IF s.ret # NULL THEN s
                          ELSE [ret |-> GetLast(lst), ix |-> s.ix]
            ELSE [ret |-> NULL, ix |-> ix]
    IN  IF inner.ret # NULL THEN inner ELSE [ret |-> first, ix |-> inner.ix]

\* a variant that ignores the index and always answers the last item
GetBestInsertPoint_LastOnly(lst, tr, ix, n) ==
    [ret |-> GetLast(lst), ix |-> ix]

\* NETCODE_FIRST_TRACKITEM::GetBestInsertPoint
GetBestInsertPoint(lst, tr, ix, n) ==
    LET first == First(lst)
        inner ==
            IF n # 0 /\ first # NULL /\ n >= tr[first].net
            THEN LET g == IF Len(ix) > n THEN GetAndSync(lst, tr, ix, n)
                          ELSE [ret |-> NULL, ix |-> ix]
                 IN  IF g.ret # NULL THEN g
                     ELSE LET s == NextNetScan(lst, tr, g.ix, n + 1) IN
                          IF s.ret # NULL THEN s
                          ELSE [ret |-> GetLast(lst), ix |-> s.ix]
            ELSE [ret |-> NULL, ix |-> ix]
    IN  IF inner.ret # NULL THEN inner ELSE [ret |-> first, ix |-> inner.ix]

\* a variant that grows the index by one entry only
Grow_ByOne(ix, n) ==
    IF n >= Len(ix) THEN Append(ix, NULL) ELSE ix

\* std::vector::resize( netcode + 1 ) when netcode >= size()
Grow(ix, n) ==
    IF n >= Len(ix) THEN ix \o [k \in 1..(n + 1 - Len(ix)) |-> NULL] ELSE ix

\* a variant that records every inserted item as the head of its net
IndexInsert_Always(lst, tr, ix, x) ==
    [Grow(ix, tr[x].net) EXCEPT ![tr[x].net + 1] = x]

\* NETCODE_FIRST_TRACKITEM::Insert
IndexInsert(lst, tr, ix, x) ==
    IF x = NULL THEN ix
    ELSE LET netcode == tr[x].net
             g == Grow(ix, netcode)
             prev == Back(lst, x)
         IN  IF (prev # NULL /\ tr[prev].net < netcode)
                \/ (prev = NULL /\ tr[x].net = netcode)
             THEN [g EXCEPT ![netcode + 1] = x]
             ELSE g

\* a variant that clears the entry instead of moving it to the successor
IndexRemove_NoSuccessor(lst, tr, ix, x) ==
    IF x = NULL THEN ix
    ELSE LET netcode == tr[x].net IN
         IF netcode < Len(ix) /\ ix[netcode + 1] = x
         THEN LET b == Back(lst, x) IN
              IF b # NULL /\ tr[b].net = netcode
              THEN [ix EXCEPT ![netcode + 1] = b]
              ELSE [ix EXCEPT ![netcode + 1] = NULL]
         ELSE ix

\* a variant that keeps the entry when no neighbour has the item's netcode
IndexRemove_KeepsLast(lst, tr, ix, x) ==
    IF x = NULL THEN ix
    ELSE LET netcode == tr[x].net IN
         IF netcode < Len(ix) /\ ix[netcode + 1] = x
         THEN LET b == Back(lst, x)
                  f == Next_(lst, x)
              IN  IF b # NULL /\ tr[b].net = netcode
                  THEN [ix EXCEPT ![netcode + 1] = b]
                  ELSE IF f # NULL /\ tr[f].net = netcode
                       THEN [ix EXCEPT ![netcode + 1] = f]
                       ELSE ix
         ELSE ix

\* a variant that looks at the successor before the predecessor
IndexRemove_SuccessorFirst(lst, tr, ix, x) ==
    IF x = NULL THEN ix
    ELSE LET netcode == tr[x].net IN
         IF netcode < Len(ix) /\ ix[netcode + 1] = x
         THEN LET b == Back(lst, x)
                  f == Next_(lst, x)
              IN  IF f # NULL /\ tr[f].net = netcode
                  THEN [ix EXCEPT ![netcode + 1] = f]
                  ELSE IF b # NULL /\ tr[b].net = netcode
                       THEN [ix EXCEPT ![netcode + 1] = b]
                       ELSE [ix EXCEPT ![netcode + 1] = NULL]
         ELSE ix

\* NETCODE_FIRST_TRACKITEM::Remove (called while the item is still linked)
IndexRemove(lst, tr, ix, x) ==
    IF x = NULL THEN ix
    ELSE LET netcode == tr[x].net IN
         IF netcode < Len(ix) /\ ix[netcode + 1] = x
         THEN LET b == Back(lst, x)
                  f == Next_(lst, x)
              IN  IF b # NULL /\ tr[b].net = netcode
                  THEN [ix EXCEPT ![netcode + 1] = b]
                  ELSE IF f # NULL /\ tr[f].net = netcode
                       THEN [ix EXCEPT ![netcode + 1] = f]
                       ELSE [ix EXCEPT ![netcode + 1] = NULL]
         ELSE ix

\* ---------------------------------------------------------------- the re-sort
\* a comparison that breaks ties by the larger sequence number
rule_TiesReversed(tr, param, ref, cmp) ==
    IF tr[ref].net = tr[cmp].net
    THEN param[ref] > param[cmp]
    ELSE tr[ref].net < tr[cmp].net

\* a comparison on the sequence number alone
rule_ParamOnly(tr, param, ref, cmp) == param[ref] < param[cmp]

\* the comparison lambda of SortTracks; param is m_Param of each item
rule(tr, param, ref, cmp) ==
    IF tr[ref].net = tr[cmp].net
    THEN param[ref] < param[cmp]
    ELSE tr[ref].net < tr[cmp].net

\* std::sort with the comparison: the elements placed one by one, each
\* before the first placed element it is ordered before
RECURSIVE PlaceSorted(_, _, _, _)
PlaceSorted(tr, param, out, x) ==
    IF out = <<>> THEN <<x>>
    ELSE IF rule(tr, param, x, out[1])
         THEN <<x>> \o out
         ELSE <<out[1]>> \o PlaceSorted(tr, param, Tail(out), x)

RECURSIVE StdSort(_, _, _, _)
StdSort(tr, param, in, out) ==
    IF in = <<>> THEN out
    ELSE StdSort(tr, param, Tail(in), PlaceSorted(tr, param, out, in[1]))

\* the second loop of SortTracks: PushBack and index Insert of each item
RECURSIVE PushAll(_, _, _, _)
PushAll(tr, tracks, lst, ix) ==
    IF tracks = <<>> THEN [list |-> lst, idx |-> ix]
    ELSE LET l2 == Append(lst, tracks[1]) IN
         PushAll(tr, Tail(tracks), l2, IndexInsert(l2, tr, ix, tracks[1]))

\* TRACKITEMS::SortTracks: the list and the index after it.  The first loop
\* numbers the items by position (m_Param = n) and pops them all.
SortTracks(lst, tr, ix) ==
    IF lst = <<>> THEN [list |-> lst, idx |-> ix]
    ELSE LET param == [x \in Ids |-> Pos(lst, x) - 1]
             tracks == StdSort(tr, param, lst, <<>>)
         IN  PushAll(tr, tracks, <<>>, ix)

\* ------------------------------------------------------------- geometry
\* the copper layers of the board: front and back
AllCuMask == {1, 2}

\* TRACK::GetLayerSet: a trace is on its layer, a through via on every layer
GetLayerSet(t) == IF t.type = "via" THEN AllCuMask ELSE {t.layer}

\* TRACK::GetLayer: a via answers its top layer
GetLayer(t) == IF t.type = "via" THEN 1 ELSE t.layer

\* TRACK::GetEndPoint
GetEndPoint(t, endpoint) == IF endpoint = "START" THEN t.s ELSE t.e

\* TRACK::IsNull: a trace of no length; a via never is
IsNull(t) == t.type # "via" /\ t.s = t.e

\* D_PAD::HitTest: a pad covers the point it sits on
HitTest(pad, pt) == pad.pos = pt

\* BOARD::HitTestForAnyFilledArea: a filled area of the net, on a layer of
\* the range, over the point
HitTestForAnyFilledArea(zs, pt, layers, net) ==
    \E z \in zs : z.pos = pt /\ z.layer \in layers /\ z.net = net

\* a variant of the exact test that compares the products the wrong way
parallelism_test_Dot(dx1, dy1, dx2, dy2) ==
    IF dx1 = 0 THEN dx2 = 0
    ELSE IF dx2 = 0 THEN dx1 = 0
    ELSE IF dy1 = 0 THEN dy2 = 0
    ELSE IF dy2 = 0 THEN dy1 = 0
    ELSE dx1 * dx2 = dy1 * dy2

\* parallelism_test; the products are compared as doubles, which is exact
\* for coordinates of the size used here
parallelism_test(dx1, dy1, dx2, dy2) ==
    IF dx1 = 0 THEN dx2 = 0
    ELSE IF dx2 = 0 THEN dx1 = 0
    ELSE IF dy1 = 0 THEN dy2 = 0
    ELSE IF dy2 = 0 THEN dy1 = 0
    ELSE dy1 * dx2 = dx1 * dy2

\* ---------------------------------------------------------- the track cleaner
\* The cleaner works on b = [list, trk, idx, removed, changed]: the board's
\* list, items and index, and what m_commit was told (Removed, Modified).

\* m_brd->Remove( item ) followed by m_commit.Removed( item )
BoardRemove(b, x) ==
    [b EXCEPT !.idx = IndexRemove(b.list, b.trk, b.idx, x),
              !.list = Unlink(b.list, x),
              !.removed = Append(b.removed, x)]

\* the bidirectional search of TRACK::GetTrack( start, NULL, endpoint, true,
\* false ): forward and backward from the item in turn, each direction
\* ending at the first item of another netcode; the nearest item that is
\* not BUSY, shares a layer and has an end on the point
RECURSIVE GetTrackWalk(_, _, _, _, _, _)
GetTrackWalk(lst, tr, this, pt, nextSegment, previousSegment) ==
    LET nx == IF nextSegment # NULL /\ tr[nextSegment].net # tr[this].net
              THEN NULL ELSE nextSegment
        pv == IF previousSegment # NULL /\ tr[previousSegment].net # tr[this].net
              THEN NULL ELSE previousSegment
        Good(x) == /\ x # this
                   /\ ~tr[x].busy
                   /\ GetLayerSet(tr[this]) \cap GetLayerSet(tr[x]) # {}
                   /\ (pt = tr[x].s \/ pt = tr[x].e)
    IN  IF nx = NULL /\ pv = NULL THEN NULL
        ELSE IF nx # NULL /\ Good(nx) THEN nx
        ELSE IF pv # NULL /\ Good(pv) THEN pv
        ELSE GetTrackWalk(lst, tr, this, pt,
                 IF nx = NULL THEN NULL ELSE Next_(lst, nx),
                 IF pv = NULL THEN NULL ELSE Back(lst, pv))

GetTrack(lst, tr, this, endpoint) ==
    GetTrackWalk(lst, tr, this, GetEndPoint(tr[this], endpoint), this, this)

\* CONNECTIONS::SearchTracksConnectedToPads: the pads that share a layer with
\* the item and cover one of its ends
PadsTouching(ps, t) ==
    {k \in 1..Len(ps) :
        /\ ps[k].layers \cap GetLayerSet(t) # {}
        /\ (HitTest(ps[k], t.s) \/ HitTest(ps[k], t.e))}

\* CONNECTIONS::SearchConnectedTracks: the other items that share a layer
\* and have an end on one of the item's ends
TracksTouching(lst, tr, x) ==
    {y \in Ids :
        /\ Linked(lst, y) /\ y # x
        /\ GetLayerSet(tr[x]) \cap GetLayerSet(tr[y]) # {}
        /\ \E a \in {tr[x].s, tr[x].e} : \E c \in {tr[y].s, tr[y].e} : a = c}

\* TRACKS_CLEANER::buildTrackConnectionInfo
buildTrackConnectionInfo(b, ps) ==
    [b EXCEPT !.trk = [x \in Ids |->
        IF Linked(b.list, x)
        THEN LET t == b.trk[x]
                 pc_ == PadsTouching(ps, t)
             IN  [t EXCEPT !.pads = pc_,
                           !.busy = FALSE,
                           !.sop = \E k \in pc_ : HitTest(ps[k], t.s),
                           !.eop = \E k \in pc_ : HitTest(ps[k], t.e)]
        ELSE b.trk[x]]]

\* GetFirstVia: the first via at or after the item
RECURSIVE GetFirstVia(_, _, _)
GetFirstVia(lst, tr, x) ==
    IF x = NULL THEN NULL
    ELSE IF tr[x].type = "via" THEN x
    ELSE GetFirstVia(lst, tr, Next_(lst, x))

\* TRACKS_CLEANER::remove_duplicates_of_via: the loop from alt_via on
RECURSIVE DupViaLoop(_, _, _, _)
DupViaLoop(b, aVia, alt_via, acc) ==
    IF alt_via = NULL THEN [b |-> b, modified |-> acc]
    ELSE LET next_via == GetFirstVia(b.list, b.trk, Next_(b.list, alt_via))
             hit == b.trk[alt_via].s = b.trk[aVia].s
         IN  DupViaLoop(IF hit THEN BoardRemove(b, alt_via) ELSE b,
                        aVia, next_via, acc \/ hit)

\* a variant that leaves the other vias on the point alone
remove_duplicates_of_via_None(b, aVia) == [b |-> b, modified |-> FALSE]

remove_duplicates_of_via(b, aVia) ==
    DupViaLoop(b, aVia, GetFirstVia(b.list, b.trk, Next_(b.list, aVia)), FALSE)

\* TRACKS_CLEANER::clean_vias: the loop from via on
RECURSIVE CleanViasLoop(_, _, _, _)
CleanViasLoop(b, ps, via, acc) ==
    IF via = NULL THEN [b |-> b, modified |-> acc]
    ELSE LET b1 == IF b.trk[via].s # b.trk[via].e
                   THEN [b EXCEPT !.trk[via].e = b.trk[via].s]
                   ELSE b
             d == remove_duplicates_of_via(b1, via)
             onThrough == \E k \in d.b.trk[via].pads :
                              ps[k].layers \cap AllCuMask = AllCuMask
             b3 == IF onThrough THEN BoardRemove(d.b, via) ELSE d.b
         IN  CleanViasLoop(b3, ps,
                 GetFirstVia(b3.list, b3.trk, Next_(b3.list, via)),
                 acc \/ d.modified \/ onThrough)

clean_vias(b, ps) ==
    CleanViasLoop(b, ps, GetFirstVia(b.list, b.trk, First(b.list)), FALSE)

\* a loop that ends after the first segment it deletes
RECURSIVE NullLoop_StopAtFirst(_, _, _)
NullLoop_StopAtFirst(b, segment, acc) ==
    IF segment = NULL THEN [b |-> b, modified |-> acc]
    ELSE IF IsNull(b.trk[segment])
         THEN [b |-> BoardRemove(b, segment), modified |-> TRUE]
         ELSE NullLoop_StopAtFirst(b, Next_(b.list, segment), acc)

\* TRACKS_CLEANER::delete_null_segments: the loop from segment on
RECURSIVE NullLoop(_, _, _)
NullLoop(b, segment, acc) ==
    IF segment = NULL THEN [b |-> b, modified |-> acc]
    ELSE LET nextsegment == Next_(b.list, segment)
             hit == IsNull(b.trk[segment])
         IN  NullLoop(IF hit THEN BoardRemove(b, segment) ELSE b,
                      nextsegment, acc \/ hit)

delete_null_segments(b) == NullLoop(b, First(b.list), FALSE)

\* a variant that does not compare the end points the other way round
RECURSIVE DupTrackLoop_NoSwap(_, _, _, _)
DupTrackLoop_NoSwap(b, aTrack, other, acc) ==
    IF other = NULL THEN [b |-> b, modified |-> acc]
    ELSE LET nextsegment == Next_(b.list, other)
             a == b.trk[aTrack]
             o == b.trk[other]
         IN  IF a.net # o.net THEN [b |-> b, modified |-> acc]
             ELSE LET hit == /\ a.type = o.type
                             /\ GetLayer(a) = GetLayer(o)
                             /\ a.s = o.s /\ a.e = o.e
                  IN  DupTrackLoop_NoSwap(IF hit THEN BoardRemove(b, other) ELSE b,
                                          aTrack, nextsegment, acc \/ hit)

\* TRACKS_CLEANER::remove_duplicates_of_track: the loop from other on
RECURSIVE DupTrackLoop(_, _, _, _)
DupTrackLoop(b, aTrack, other, acc) ==
    IF other = NULL THEN [b |-> b, modified |-> acc]
    ELSE LET nextsegment == Next_(b.list, other)
             a == b.trk[aTrack]
             o == b.trk[other]
         IN  IF a.net # o.net THEN [b |-> b, modified |-> acc]
             ELSE LET hit == /\ a.type = o.type
                             /\ GetLayer(a) = GetLayer(o)
                             /\ \/ (a.s = o.s /\ a.e = o.e)
                                \/ (a.s = o.e /\ a.e = o.s)
                  IN  DupTrackLoop(IF hit THEN BoardRemove(b, other) ELSE b,
                                   aTrack, nextsegment, acc \/ hit)

remove_duplicates_of_track(b, aTrack) ==
    DupTrackLoop(b, aTrack, Next_(b.list, aTrack), FALSE)

\* a variant that leaves START_ON_PAD and END_ON_PAD of aTrackRef as they are
mergeCollinearSegmentIfPossible_OwnFlag(tr, aTrackRef, aCandidate, aEndType) ==
    LET r == tr[aTrackRef]
        c == tr[aCandidate]
        no == [ok |-> FALSE, trk |-> tr]
    IN  IF r.w # c.w \/ r.type # "trace" \/ c.type # "trace" THEN no
        ELSE IF r.s = c.s /\ r.e = c.e THEN [ok |-> TRUE, trk |-> tr]
        ELSE IF r.s = c.e /\ r.e = c.s THEN [ok |-> TRUE, trk |-> tr]
        ELSE IF ~parallelism_test(r.e[1] - r.s[1], r.e[2] - r.s[2],
                                  c.e[1] - c.s[1], c.e[2] - c.s[2]) THEN no
        ELSE IF aEndType = "START"
             THEN IF r.sop THEN no
                  ELSE IF r.s = c.s
                       THEN [ok |-> TRUE, trk |-> [tr EXCEPT ![aTrackRef].s = c.e]]
                       ELSE [ok |-> TRUE, trk |-> [tr EXCEPT ![aTrackRef].s = c.s]]
             ELSE IF r.eop THEN no
                  ELSE IF r.e = c.s
                       THEN [ok |-> TRUE, trk |-> [tr EXCEPT ![aTrackRef].e = c.e]]
                       ELSE [ok |-> TRUE, trk |-> [tr EXCEPT ![aTrackRef].e = c.s]]

\* a variant without the tests of START_ON_PAD and END_ON_PAD
mergeCollinearSegmentIfPossible_NoPadTest(tr, aTrackRef, aCandidate, aEndType) ==
    LET r == tr[aTrackRef]
        c == tr[aCandidate]
        no == [ok |-> FALSE, trk |-> tr]
    IN  IF r.w # c.w \/ r.type # "trace" \/ c.type # "trace" THEN no
        ELSE IF r.s = c.s /\ r.e = c.e THEN [ok |-> TRUE, trk |-> tr]
        ELSE IF r.s = c.e /\ r.e = c.s THEN [ok |-> TRUE, trk |-> tr]
        ELSE IF ~parallelism_test(r.e[1] - r.s[1], r.e[2] - r.s[2],
                                  c.e[1] - c.s[1], c.e[2] - c.s[2]) THEN no
        ELSE IF aEndType = "START"
             THEN IF r.s = c.s
                  THEN [ok |-> TRUE,
                        trk |-> [tr EXCEPT ![aTrackRef].s = c.e,
                                           ![aTrackRef].sop = c.eop]]
                  ELSE [ok |-> TRUE,
                        trk |-> [tr EXCEPT ![aTrackRef].s = c.s,
                                           ![aTrackRef].sop = c.sop]]
             ELSE IF r.e = c.s
                  THEN [ok |-> TRUE,
                        trk |-> [tr EXCEPT ![aTrackRef].e = c.e,
                                           ![aTrackRef].eop = c.eop]]
                  ELSE [ok |-> TRUE,
                        trk |-> [tr EXCEPT ![aTrackRef].e = c.s,
                                           ![aTrackRef].eop = c.sop]]

\* TRACKS_CLEANER::mergeCollinearSegmentIfPossible: whether aCandidate can go
\* (the returned pointer is aCandidate or NULL) and the items after it
mergeCollinearSegmentIfPossible(tr, aTrackRef, aCandidate, aEndType) ==
    LET r == tr[aTrackRef]
        c == tr[aCandidate]
        no == [ok |-> FALSE, trk |-> tr]
    IN  IF r.w # c.w \/ r.type # "trace" \/ c.type # "trace" THEN no
        ELSE IF r.s = c.s /\ r.e = c.e THEN [ok |-> TRUE, trk |-> tr]
        ELSE IF r.s = c.e /\ r.e = c.s THEN [ok |-> TRUE, trk |-> tr]
        ELSE IF ~parallelism_test(r.e[1] - r.s[1], r.e[2] - r.s[2],
                                  c.e[1] - c.s[1], c.e[2] - c.s[2]) THEN no
        ELSE IF aEndType = "START"
             THEN IF r.sop THEN no
                  ELSE IF r.s = c.s
                       THEN [ok |-> TRUE,
                             trk |-> [tr EXCEPT ![aTrackRef].s = c.e,
                                                ![aTrackRef].sop = c.eop]]
                       ELSE [ok |-> TRUE,
                             trk |-> [tr EXCEPT ![aTrackRef].s = c.s,
                                                ![aTrackRef].sop = c.sop]]
             ELSE IF r.eop THEN no
                  ELSE IF r.e = c.s
                       THEN [ok |-> TRUE,
                             trk |-> [tr EXCEPT ![aTrackRef].e = c.e,
                                                ![aTrackRef].eop = c.eop]]
                       ELSE [ok |-> TRUE,
                             trk |-> [tr EXCEPT ![aTrackRef].e = c.s,
                                                ![aTrackRef].eop = c.sop]]

\* the body of the endpoint loop of merge_collinear_of_track for one endpoint
MergeAtEndpoint(b, aSegment, endpoint) ==
    LET no == [b |-> b, merged |-> FALSE] IN
    IF Next_(b.list, aSegment) = NULL THEN no
    ELSE LET Merged(b2) ==
                 [b |-> [b2 EXCEPT !.changed = b2.changed \cup {aSegment}],
                  merged |-> TRUE]
             Try(other, tr2, m) ==
                 IF ~m.ok THEN [b |-> [b EXCEPT !.trk = tr2], merged |-> FALSE]
                 ELSE Merged(BoardRemove([b EXCEPT !.trk = m.trk], other))
             Alone(other, tr2, yet_another) ==
                 IF yet_another # NULL
                 THEN [b |-> [b EXCEPT !.trk = tr2], merged |-> FALSE]
                 ELSE Try(other, tr2,
                          mergeCollinearSegmentIfPossible(tr2, aSegment, other,
                                                          endpoint))
             With(other) ==
                 IF other = NULL THEN no
                 ELSE IF ~(b.trk[aSegment].w = b.trk[other].w
                           /\ b.trk[other].type = "trace") THEN no
                 ELSE Alone(other, [b.trk EXCEPT ![other].busy = FALSE],
                            GetTrack(b.list,
                                     [b.trk EXCEPT ![other].busy = TRUE],
                                     aSegment, endpoint))
         IN  With(GetTrack(b.list, b.trk, aSegment, endpoint))

\* TRACKS_CLEANER::merge_collinear_of_track: the start, then the end
merge_collinear_of_track(b, aSegment) ==
    LET Both(m1, m2) == [b |-> m2.b, modified |-> m1.merged \/ m2.merged]
        AtEnd(m1) == Both(m1, MergeAtEndpoint(m1.b, aSegment, "END"))
    IN  AtEnd(MergeAtEndpoint(b, aSegment, "START"))

\* the second loop of clean_segments: remove_duplicates_of_track of each item
RECURSIVE DupAllLoop(_, _, _)
DupAllLoop(b, segment, acc) ==
    IF segment = NULL THEN [b |-> b, modified |-> acc]
    ELSE LET d == remove_duplicates_of_track(b, segment) IN
         DupAllLoop(d.b, Next_(d.b.list, segment), acc \/ d.modified)

\* a merge loop that visits a merged segment again until nothing merges
RECURSIVE MergeLoop_Retry(_, _, _)
MergeLoop_Retry(b, segment, acc) ==
    IF segment = NULL THEN [b |-> b, modified |-> acc]
    ELSE IF b.trk[segment].type = "trace"
         THEN LET m == merge_collinear_of_track(b, segment) IN
              IF m.modified
              THEN MergeLoop_Retry(m.b, First(m.b.list), TRUE)
              ELSE MergeLoop_Retry(b, Next_(b.list, segment), acc)
         ELSE MergeLoop_Retry(b, Next_(b.list, segment), acc)

\* a merge loop that goes on from the successor saved before the merge
RECURSIVE MergeLoop_StaleNext(_, _, _)
MergeLoop_StaleNext(b, segment, acc) ==
    IF segment = NULL THEN [b |-> b, modified |-> acc]
    ELSE LET nextsegment == Next_(b.list, segment) IN
         IF b.trk[segment].type = "trace"
         THEN LET m == merge_collinear_of_track(b, segment) IN
              MergeLoop_StaleNext(m.b,
                  IF Linked(m.b.list, nextsegment) THEN nextsegment ELSE NULL,
                  acc \/ m.modified)
         ELSE MergeLoop_StaleNext(b, nextsegment, acc)

\* the third loop of clean_segments: merge_collinear_of_track of each trace;
\* after a merge the loop goes on with the segment's successor
RECURSIVE MergeLoop(_, _, _)
MergeLoop(b, segment, acc) ==
    IF segment = NULL THEN [b |-> b, modified |-> acc]
    ELSE IF b.trk[segment].type = "trace"
         THEN LET Go(m) ==
                      MergeLoop(m.b, Next_(m.b.list, segment), acc \/ m.modified)
              IN  Go(merge_collinear_of_track(b, segment))
         ELSE MergeLoop(b, Next_(b.list, segment), acc)

\* TRACKS_CLEANER::clean_segments
clean_segments(b) ==
    LET Dup(n) == DupAllLoop(n.b, First(n.b.list), n.modified)
        Merge(d) == MergeLoop(d.b, First(d.b.list), d.modified)
    IN  Merge(Dup(delete_null_segments(b)))

\* a flagging sweep that also counts the connected items already flagged
RECURSIVE FlagLoop_CountsFlagged(_, _, _, _)
FlagLoop_CountsFlagged(lst, tr, ps, segment) ==
    IF segment = NULL THEN tr
    ELSE LET t == tr[segment]
             bad == \/ \E k \in t.pads : t.net # ps[k].net
                    \/ \E tested \in t.conn : t.net # tr[tested].net
         IN  FlagLoop_CountsFlagged(lst, [tr EXCEPT ![segment].flag0 = bad], ps,
                                    Next_(lst, segment))

\* a flagging sweep that flags an item only when every pad connected to it
\* has another netcode
RECURSIVE FlagLoop_AllPads(_, _, _, _)
FlagLoop_AllPads(lst, tr, ps, segment) ==
    IF segment = NULL THEN tr
    ELSE LET t == tr[segment]
             bad == \/ (t.pads # {} /\ \A k \in t.pads : t.net # ps[k].net)
                    \/ \E tested \in t.conn :
                          t.net # tr[tested].net /\ ~tr[tested].flag0
         IN  FlagLoop_AllPads(lst, [tr EXCEPT ![segment].flag0 = bad], ps,
                              Next_(lst, segment))

\* the flagging sweep of removeBadTrackSegments from segment on
RECURSIVE FlagLoop(_, _, _, _)
FlagLoop(lst, tr, ps, segment) ==
    IF segment = NULL THEN tr
    ELSE LET t == tr[segment]
             bad == \/ \E k \in t.pads : t.net # ps[k].net
                    \/ \E tested \in t.conn :
                          t.net # tr[tested].net /\ ~tr[tested].flag0
         IN  FlagLoop(lst, [tr EXCEPT ![segment].flag0 = bad], ps,
                      Next_(lst, segment))

\* the removal loop of removeBadTrackSegments from segment on
RECURSIVE FlaggedLoop(_, _, _)
FlaggedLoop(b, segment, isModified) ==
    IF segment = NULL THEN [b |-> b, modified |-> isModified]
    ELSE LET next == Next_(b.list, segment)
             hit == b.trk[segment].flag0
         IN  FlaggedLoop(IF hit THEN BoardRemove(b, segment) ELSE b,
                         next, isModified \/ hit)

\* a variant that leaves m_TracksConnected as the sweep built it
removeBadTrackSegments_KeepsConn(b, ps) ==
    LET tr1 == [x \in Ids |->
                   IF Linked(b.list, x)
                   THEN [b.trk[x] EXCEPT
                            !.pads = b.trk[x].pads \cup PadsTouching(ps, b.trk[x]),
                            !.conn = TracksTouching(b.list, b.trk, x)]
                   ELSE b.trk[x]]
        tr2 == FlagLoop(b.list, tr1, ps, First(b.list))
    IN  FlaggedLoop([b EXCEPT !.trk = tr2], First(b.list), FALSE)

\* TRACKS_CLEANER::removeBadTrackSegments
removeBadTrackSegments(b, ps) ==
    LET tr1 == [x \in Ids |->
                   IF Linked(b.list, x)
                   THEN [b.trk[x] EXCEPT
                            !.pads = b.trk[x].pads \cup PadsTouching(ps, b.trk[x]),
                            !.conn = TracksTouching(b.list, b.trk, x)]
                   ELSE b.trk[x]]
        tr2 == FlagLoop(b.list, tr1, ps, First(b.list))
        r == FlaggedLoop([b EXCEPT !.trk = tr2], First(b.list), FALSE)
    IN  IF r.modified
        THEN [b |-> [r.b EXCEPT !.trk = [x \in Ids |->
                        IF Linked(r.b.list, x)
                        THEN [r.b.trk[x] EXCEPT !.conn = {}]
                        ELSE r.b.trk[x]]],
              modified |-> TRUE]
        ELSE r

\* TRACKS_CLEANER::zoneForTrackEndpoint
zoneForTrackEndpoint(zs, t, aEndPoint) ==
    HitTestForAnyFilledArea(zs, GetEndPoint(t, aEndPoint), GetLayerSet(t), t.net)

\* a variant that does not look behind a via on the end
testTrackEndpointDangling_NoVia(lst, tr, zs, aTrack, aEndPoint) ==
    /\ GetTrack(lst, tr, aTrack, aEndPoint) = NULL
    /\ ~zoneForTrackEndpoint(zs, tr[aTrack], aEndPoint)

\* TRACKS_CLEANER::testTrackEndpointDangling (BUSY is set on aTrack for the
\* search from the via and cleared again)
testTrackEndpointDangling(lst, tr, zs, aTrack, aEndPoint) ==
    LET Test(other) ==
            IF other = NULL /\ ~zoneForTrackEndpoint(zs, tr[aTrack], aEndPoint)
            THEN TRUE
            ELSE IF other # NULL /\ tr[other].type = "via"
                 THEN LET busyTrk == [tr EXCEPT ![aTrack].busy = TRUE]
                          other2 == GetTrack(lst, busyTrk, other, aEndPoint)
                      IN  /\ other2 = NULL
                          /\ ~zoneForTrackEndpoint(zs, tr[other], aEndPoint)
                 ELSE FALSE
    IN  Test(GetTrack(lst, tr, aTrack, aEndPoint))

\* a round that tests both ends of an item whatever its pad flags say
RECURSIVE DanglingRound_NoPadFlags(_, _, _, _)
DanglingRound_NoPadFlags(b, zs, track, item_erased) ==
    IF track = NULL THEN [b |-> b, modified |-> item_erased]
    ELSE LET next_track == Next_(b.list, track)
             Go(flag_erase) ==
                   DanglingRound_NoPadFlags(
                       IF flag_erase THEN BoardRemove(b, track) ELSE b,
                       zs, next_track, item_erased \/ flag_erase)
         IN  Go(\/ testTrackEndpointDangling(b.list, b.trk, zs, track, "START")
                \/ testTrackEndpointDangling(b.list, b.trk, zs, track, "END"))

\* a round that tests the start of an item only
RECURSIVE DanglingRound_StartOnly(_, _, _, _)
DanglingRound_StartOnly(b, zs, track, item_erased) ==
    IF track = NULL THEN [b |-> b, modified |-> item_erased]
    ELSE LET next_track == Next_(b.list, track)
             Go(flag_erase) ==
                   DanglingRound_StartOnly(
                       IF flag_erase THEN BoardRemove(b, track) ELSE b,
                       zs, next_track, item_erased \/ flag_erase)
         IN  Go(IF ~b.trk[track].sop
                THEN testTrackEndpointDangling(b.list, b.trk, zs, track,
                                               "START")
                ELSE FALSE)

\* the state bits after a call of testTrackEndpointDangling that left BUSY
\* set on aTrack where it had set it
BusyAfterTest_NoClear(lst, tr, aTrack, aEndPoint) ==
    LET Mark(other) ==
            IF other # NULL /\ tr[other].type = "via"
            THEN [tr EXCEPT ![aTrack].busy = TRUE]
            ELSE tr
    IN  Mark(GetTrack(lst, tr, aTrack, aEndPoint))

\* the state bits after a call of testTrackEndpointDangling: where a via is
\* on the end, BUSY was set on aTrack for the search from the via and is
\* clear after it
BusyAfterTest(lst, tr, aTrack, aEndPoint) ==
    LET Mark(other) ==
            IF other # NULL /\ tr[other].type = "via"
            THEN [tr EXCEPT ![aTrack].busy = FALSE]
            ELSE tr
    IN  Mark(GetTrack(lst, tr, aTrack, aEndPoint))

\* one round of deleteDanglingTracks: the for loop from track on
RECURSIVE DanglingRound(_, _, _, _)
DanglingRound(b, zs, track, item_erased) ==
    IF track = NULL THEN [b |-> b, modified |-> item_erased]
    ELSE LET next_track == Next_(b.list, track)
             t == b.trk[track]
             Go(flag_erase, tr2) ==
                   DanglingRound(IF flag_erase
                                 THEN BoardRemove([b EXCEPT !.trk = tr2], track)
                                 ELSE [b EXCEPT !.trk = tr2],
                                 zs, next_track, item_erased \/ flag_erase)
             AtEnd(e1, tr1) ==
                   IF ~e1 /\ ~t.eop
                   THEN Go(testTrackEndpointDangling(b.list, tr1, zs, track,
                                                     "END"),
                           BusyAfterTest(b.list, tr1, track, "END"))
                   ELSE Go(e1, tr1)
         IN  IF ~t.sop
             THEN AtEnd(testTrackEndpointDangling(b.list, b.trk, zs, track,
                                                  "START"),
                        BusyAfterTest(b.list, b.trk, track, "START"))
             ELSE AtEnd(FALSE, b.trk)

\* a loop that makes one round only
DanglingRounds_Once(b, zs, acc) ==
    LET After(r) ==
            [b |-> r.b, modified |-> acc \/ r.modified,
             erased |-> <<Len(r.b.removed) - Len(b.removed)>>]
    IN  After(DanglingRound(b, zs, First(b.list), FALSE))

\* the do-while loop of deleteDanglingTracks; erased holds, round by round,
\* the number of items the round erased
RECURSIVE DanglingRounds(_, _, _)
DanglingRounds(b, zs, acc) ==
    LET After(r) ==
            IF r.modified
            THEN [DanglingRounds(r.b, zs, TRUE) EXCEPT
                     !.erased = <<Len(r.b.removed) - Len(b.removed)>> \o @]
            ELSE [b |-> r.b, modified |-> acc, erased |-> <<0>>]
    IN  After(DanglingRound(b, zs, First(b.list), FALSE))

\* TRACKS_CLEANER::deleteDanglingTracks
deleteDanglingTracks(b, zs) ==
    IF First(b.list) = NULL THEN [b |-> b, modified |-> FALSE, erased |-> <<>>]
    ELSE DanglingRounds(b, zs, FALSE)

\* ------------------------------------------------------- the board operations
\* TRACK::GetBestInsertPoint( BOARD* ): the forward search, from the item the
\* index answers, for the first item whose netcode is not smaller
RECURSIVE ScanFrom(_, _, _, _)
ScanFrom(lst, tr, track, n) ==
    IF track = NULL THEN NULL
    ELSE IF n <= tr[track].net THEN track
         ELSE ScanFrom(lst, tr, Next_(lst, track), n)

\* an identifier that names no linked item and that no index entry holds
Unused(x) == ~Linked(list, x) /\ \A k \in 1..Len(idx) : idx[k] # x
HasUnused == \E x \in Ids : Unused(x)
FreshId == CHOOSE x \in Ids : Unused(x) /\ \A y \in Ids : Unused(y) => x <= y

\* the storage of unlinked items that the index does not hold is released
Release(lst, tr, ix) ==
    [x \in Ids |->
        IF Linked(lst, x) \/ \E k \in 1..Len(ix) : ix[k] = x
        THEN tr[x] ELSE NoTrack]

NoOp == [op |-> "none", arg |-> 0, ret |-> 0, pre |-> <<>>]

NoOpts == [mis |-> FALSE, vias |-> FALSE, merge |-> FALSE, del |-> FALSE]
NoSnap == [list |-> <<>>, pts |-> <<>>]
NoRounds == [items |-> 0, erased |-> <<>>]

\* no cleanup is running and none has run
CleanerIdle ==
    /\ pc = "idle"
    /\ opts = NoOpts
    /\ modified = FALSE
    /\ log = <<>>
    /\ removed = <<>>
    /\ changed = {}
    /\ run = 0
    /\ snap = NoSnap
    /\ ret = FALSE
    /\ rounds = NoRounds

Init ==
    /\ list = <<>>
    /\ trk = [x \in Ids |-> NoTrack]
    /\ idx = <<>>
    /\ last = NoOp
    /\ pads = <<>>
    /\ zones = {}
    /\ CleanerIdle

\* BOARD::Add: splice at the best insert point, then index Insert
AddItem(n) ==
    /\ HasUnused
    /\ LET x == FreshId
           tr2 == [trk EXCEPT ![x] = PlainTrace(n)]
           bip == GetBestInsertPoint(list, tr2, idx, n)
           at == ScanFrom(list, tr2, bip.ret, n)
           l2 == InsertBefore(list, x, at)
       IN  /\ list' = l2
           /\ trk' = tr2
           /\ idx' = IndexInsert(l2, tr2, bip.ix, x)
           /\ last' = [op |-> "AddItem", arg |-> n, ret |-> x, pre |-> <<>>]
    /\ UNCHANGED cleanVars

\* DLIST::PushBack on its own: a direct append that leaves the index alone
AppendItem(n) ==
    /\ HasUnused
    /\ LET x == FreshId IN
       /\ list' = Append(list, x)
       /\ trk' = [trk EXCEPT ![x] = PlainTrace(n)]
       /\ idx' = idx
       /\ last' = [op |-> "AppendItem", arg |-> n, ret |-> 0, pre |-> <<>>]
    /\ UNCHANGED cleanVars

\* where an item stands before its removal: 0 when it is not the recorded
\* head of its netcode, else 1 with a predecessor of its netcode, 2 with a
\* successor of its netcode only, 3 with neither
Standing(lst, tr, ix, x) ==
    IF ~(tr[x].net < Len(ix) /\ ix[tr[x].net + 1] = x) THEN 0
    ELSE IF Back(lst, x) # NULL /\ tr[Back(lst, x)].net = tr[x].net THEN 1
    ELSE IF Next_(lst, x) # NULL /\ tr[Next_(lst, x)].net = tr[x].net THEN 2
    ELSE 3

\* BOARD::Remove: index Remove, then unlink
RemoveItem(x) ==
    /\ Linked(list, x)
    /\ LET ix2 == IndexRemove(list, trk, idx, x)
           l2 == Unlink(list, x)
       IN  /\ list' = l2
           /\ idx' = ix2
           /\ trk' = Release(l2, trk, ix2)
    /\ last' = [op |-> "RemoveItem", arg |-> trk[x].net,
                ret |-> Standing(list, trk, idx, x), pre |-> <<>>]
    /\ UNCHANGED cleanVars

\* a call of GetFirst( n ): it answers and resynchronises the entry
DoGetFirst(n) ==
    /\ LET g == GetFirst(list, trk, idx, n) IN
       /\ idx' = g.ix
       /\ last' = [op |-> "GetFirst", arg |-> n, ret |-> g.ret, pre |-> <<>>]
    /\ UNCHANGED <<list, trk>>
    /\ UNCHANGED cleanVars

\* a call of SortTracks()
DoSortTracks ==
    /\ LET r == SortTracks(list, trk, idx) IN
       /\ list' = r.list
       /\ idx' = r.idx
    /\ trk' = trk
    /\ last' = [op |-> "SortTracks", arg |-> 0, ret |-> 0, pre |-> list]
    /\ UNCHANGED cleanVars

\* the list with every operation, the direct append included
Next ==
    \/ \E n \in Nets : AddItem(n)
    \/ \E n \in Nets : AppendItem(n)
    \/ \E x \in Ids : RemoveItem(x)
    \/ \E n \in Nets : DoGetFirst(n)
    \/ DoSortTracks

Spec == Init /\ [][Next]_vars

\* the list under re-sort, insert and remove only
NextOps ==
    \/ \E n \in Nets : AddItem(n)
    \/ \E x \in Ids : RemoveItem(x)
    \/ \E n \in Nets : DoGetFirst(n)
    \/ DoSortTracks

SpecOps == Init /\ [][NextOps]_vars

\* the longest list of the runs on the index alone
MaxShort == 2

\* short lists under insert, direct append, remove and GetFirst
NextIndex ==
    \/ \E n \in Nets : Len(list) < MaxShort /\ AddItem(n)
    \/ \E n \in Nets : Len(list) < MaxShort /\ AppendItem(n)
    \/ \E x \in Ids : RemoveItem(x)
    \/ \E n \in Nets : DoGetFirst(n)

SpecIndex == Init /\ [][NextIndex]_vars

\* a list filled by direct appends and re-sorted
NextSort ==
    \/ \E n \in Nets : AppendItem(n)
    \/ DoSortTracks

SpecSort == Init /\ [][NextSort]_vars

\* --------------------------------------------------------- the cleanup run
\* points of the board: P(k) on one line, Q off it
P(k) == <<k, 0>>
Q == <<1, 1>>

Pad(pos, net, layers) == [pos |-> pos, net |-> net, layers |-> layers]
Zone(pos, layer, net) == [pos |-> pos, layer |-> layer, net |-> net]

\* boards of three traces chained end to end on the line P(0)..P(3), in
\* every list order and every direction, without pads or with a pad on
\* each free end
Orders3 ==
    {o \in [1..3 -> 1..3] : \A i \in 1..3 : \A j \in 1..3 : i # j => o[i] # o[j]}

Seg(k, flip) ==
    IF flip THEN Track("trace", P(k), P(k - 1), 1, 1, 1)
    ELSE Track("trace", P(k - 1), P(k), 1, 1, 1)

ChainBoards ==
    {[items |-> [i \in 1..3 |-> Seg(o[i], f[i])], pads |-> ps, zones |-> {}] :
        o \in Orders3, f \in [1..3 -> BOOLEAN],
        ps \in {<<>>, <<Pad(P(0), 1, AllCuMask), Pad(P(3), 1, AllCuMask)>>}}

\* the items the small boards are made of
SmallItems ==
    {Track("trace", P(0), P(1), 1, 1, 1),
     Track("trace", P(1), P(0), 1, 1, 1),
     Track("trace", P(1), P(2), 1, 1, 1),
     Track("trace", P(1), P(1), 1, 1, 1),
     Track("trace", P(1), Q, 1, 1, 1),
     Track("trace", P(1), P(2), 2, 1, 1),
     Track("trace", P(1), P(2), 1, 1, 2),
     Track("trace", P(1), P(2), 1, 2, 1),
     Track("via", P(1), P(1), 1, 1, 1),
     Track("via", P(1), P(2), 1, 1, 1)}

SmallPads ==
    {<<>>,
     <<Pad(P(1), 1, AllCuMask)>>,
     <<Pad(P(0), 1, AllCuMask), Pad(P(2), 1, AllCuMask)>>}

SmallZones == {{}, {Zone(P(2), 1, 1)}}

\* boards of at most two items in non-decreasing netcode order
SmallBoards ==
    {[items |-> it, pads |-> ps, zones |-> zs] :
        it \in {<<>>} \cup {<<a>> : a \in SmallItems}
               \cup {pr \in SmallItems \X SmallItems : pr[1].net <= pr[2].net},
        ps \in SmallPads, zs \in SmallZones}

\* boards of a trace from P(1) to P(2), of any netcode and in either
\* direction, between two pads of any netcodes, alone or followed by
\* a trace of its netcode from P(2) to P(3)
ShortBoards ==
    {[items |-> it, pads |-> <<Pad(P(1), a, AllCuMask), Pad(P(2), c, AllCuMask)>>,
      zones |-> {}] :
        it \in UNION {{<<Track("trace", P(1), P(2), 1, 1, n)>>,
                       <<Track("trace", P(2), P(1), 1, 1, n)>>,
                       <<Track("trace", P(1), P(2), 1, 1, n),
                         Track("trace", P(2), P(3), 1, 1, n)>>} : n \in Nets},
        a \in Nets, c \in Nets}

\* boards of a trace from P(0) to P(1), a trace between P(1) and P(2) in
\* either direction and a via on P(2), in every list order, with or without
\* a pad on P(0) and a filled area under the via
DanglingItems(flip) ==
    <<Track("trace", P(0), P(1), 1, 1, 1),
      Seg(2, flip),
      Track("via", P(2), P(2), 1, 1, 1)>>

DanglingBoards ==
    {[items |-> [i \in 1..3 |-> DanglingItems(flip)[o[i]]], pads |-> ps,
      zones |-> zs] :
        o \in Orders3, flip \in BOOLEAN,
        ps \in {<<>>, <<Pad(P(0), 1, AllCuMask)>>},
        zs \in SmallZones}

\* boards of two traces of netcode 1 that meet on P(1) and a wide via on
\* P(1), in every list order, after a trace of netcode 0 or before a trace
\* of netcode 2
ScanItems ==
    <<Track("trace", P(0), P(1), 1, 1, 1),
      Track("trace", P(1), P(3), 1, 1, 1),
      Track("via", P(1), P(1), 4, 1, 1)>>

ScanBoards ==
    {[items |-> it, pads |-> <<>>, zones |-> {}] :
        it \in UNION {{<<Track("trace", P(2), P(3), 1, 1, 0)>>
                           \o [i \in 1..3 |-> ScanItems[o[i]]],
                       [i \in 1..3 |-> ScanItems[o[i]]]
                           \o <<Track("trace", P(2), P(3), 1, 1, 2)>>} :
                      o \in Orders3}}

\* boards of a via on P(0) and a via from P(2) whose end is P(3), in either
\* list order, without pads, with a pad of every copper layer on P(0), or
\* with such a pad on P(0) and on P(2)
ViaBoards ==
    {[items |-> it, pads |-> ps, zones |-> {}] :
        it \in {<<Track("via", P(0), P(0), 1, 1, 1),
                  Track("via", P(2), P(3), 1, 1, 1)>>,
                <<Track("via", P(2), P(3), 1, 1, 1),
                  Track("via", P(0), P(0), 1, 1, 1)>>},
        ps \in {<<>>, <<Pad(P(0), 1, AllCuMask)>>,
                <<Pad(P(0), 1, AllCuMask), Pad(P(2), 1, AllCuMask)>>}}

\* boards of a trace from P(0) to P(1), a trace from P(1) to P(2) and a
\* trace from P(0) to P(2) that lies over both, in every list order,
\* without pads or with a pad on P(0) and on P(2)
OverlapItems ==
    <<Track("trace", P(0), P(1), 1, 1, 1),
      Track("trace", P(1), P(2), 1, 1, 1),
      Track("trace", P(0), P(2), 1, 1, 1)>>

OverlapBoards ==
    {[items |-> [i \in 1..3 |-> OverlapItems[o[i]]], pads |-> ps,
      zones |-> {}] :
        o \in Orders3,
        ps \in {<<>>, <<Pad(P(0), 1, AllCuMask), Pad(P(2), 1, AllCuMask)>>}}

Boards ==
    ChainBoards \cup SmallBoards \cup ShortBoards \cup DanglingBoards
        \cup ScanBoards \cup ViaBoards \cup OverlapBoards

\* a board as loaded and sorted: the items linked in order, the index built
\* by Insert of each item, no cleanup run yet
InitClean ==
    \E brd \in Boards :
        LET tr0 == [x \in Ids |-> IF x <= Len(brd.items) THEN brd.items[x]
                                 ELSE NoTrack]
            l0 == [i \in 1..Len(brd.items) |-> i]
        IN  /\ list = l0
            /\ trk = tr0
            /\ idx = PushAll(tr0, l0, <<>>, <<>>).idx
            /\ pads = brd.pads
            /\ zones = brd.zones
            /\ last = NoOp
            /\ CleanerIdle

\* the board the cleaner works on, and its write-back
Cur == [list |-> list, trk |-> trk, idx |-> idx,
        removed |-> removed, changed |-> changed]

SetBoard(b) ==
    /\ list' = b.list
    /\ trk' = b.trk
    /\ idx' = b.idx
    /\ removed' = b.removed
    /\ changed' = b.changed

\* the conditions under which CleanupBoard calls its passes
RunsCleanVias_Always(o) == TRUE
RunsCleanVias(o) == o.vias

RunsCleanSegments(o) == o.merge

\* a variant that does not ask for the short-circuit option
RunsDeleteNull_MergeOff(o) == ~o.merge
RunsDeleteNull(o) == ~o.merge /\ o.mis

RunsRemoveBad(o) == o.mis
RunsDangling(o) == o.del

\* a call of CleanupBoard( aRemoveMisConnected, aCleanVias, aMergeSegments,
\* aDeleteUnconnected ); a later call is made with the same arguments
CB_Start ==
    /\ pc = "idle"
    /\ run < MaxRuns
    /\ \E o \in [mis : BOOLEAN, vias : BOOLEAN, merge : BOOLEAN, del : BOOLEAN] :
          /\ run > 0 => o = opts
          /\ opts' = o
    /\ snap' = [list |-> list,
                pts |-> [i \in 1..Len(list) |->
                            <<trk[list[i]].s, trk[list[i]].e>>]]
    /\ modified' = FALSE
    /\ log' = <<>>
    /\ removed' = <<>>
    /\ changed' = {}
    /\ pc' = "build"
    /\ UNCHANGED <<list, trk, idx, last, pads, zones, run, ret, rounds>>

\* buildTrackConnectionInfo(); bool modified = false;
CB_Build ==
    /\ pc = "build"
    /\ SetBoard(buildTrackConnectionInfo(Cur, pads))
    /\ log' = Append(log, "buildTrackConnectionInfo")
    /\ pc' = "vias"
    /\ UNCHANGED <<last, pads, zones, opts, modified, run, snap, ret, rounds>>

\* if( aCleanVias ) modified |= clean_vias();
CB_Vias ==
    /\ pc = "vias"
    /\ IF RunsCleanVias(opts)
       THEN LET r == clean_vias(Cur, pads) IN
            /\ SetBoard(r.b)
            /\ modified' = (modified \/ r.modified)
            /\ log' = Append(log, "clean_vias")
       ELSE UNCHANGED <<list, trk, idx, removed, changed, modified, log>>
    /\ pc' = "segs"
    /\ UNCHANGED <<last, pads, zones, opts, run, snap, ret, rounds>>

\* if( aMergeSegments ) modified |= clean_segments();
\* else if( aRemoveMisConnected ) modified |= delete_null_segments();
CB_Segments ==
    /\ pc = "segs"
    /\ IF RunsCleanSegments(opts)
       THEN LET r == clean_segments(Cur) IN
            /\ SetBoard(r.b)
            /\ modified' = (modified \/ r.modified)
            /\ log' = Append(log, "clean_segments")
       ELSE IF RunsDeleteNull(opts)
       THEN LET r == delete_null_segments(Cur) IN
            /\ SetBoard(r.b)
            /\ modified' = (modified \/ r.modified)
            /\ log' = Append(log, "delete_null_segments")
       ELSE UNCHANGED <<list, trk, idx, removed, changed, modified, log>>
    /\ pc' = "bad"
    /\ UNCHANGED <<last, pads, zones, opts, run, snap, ret, rounds>>

\* if( aRemoveMisConnected ) { if( removeBadTrackSegments() )
\*     { modified = true; buildTrackConnectionInfo(); } }
CB_Bad ==
    /\ pc = "bad"
    /\ IF RunsRemoveBad(opts)
       THEN LET r == removeBadTrackSegments(Cur, pads) IN
            IF r.modified
            THEN /\ SetBoard(buildTrackConnectionInfo(r.b, pads))
                 /\ modified' = TRUE
                 /\ log' = log \o <<"removeBadTrackSegments",
                                    "buildTrackConnectionInfo">>
            ELSE /\ SetBoard(r.b)
                 /\ modified' = modified
                 /\ log' = Append(log, "removeBadTrackSegments")
       ELSE UNCHANGED <<list, trk, idx, removed, changed, modified, log>>
    /\ pc' = "dangling"
    /\ UNCHANGED <<last, pads, zones, opts, run, snap, ret, rounds>>

\* if( aDeleteUnconnected ) { if( modified ) buildTrackConnectionInfo();
\*     if( deleteDanglingTracks() ) { modified = true;
\*         if( aMergeSegments ) clean_segments(); } }
CB_Dangling ==
    /\ pc = "dangling"
    /\ IF RunsDangling(opts)
       THEN \E l1 \in {IF modified THEN Append(log, "buildTrackConnectionInfo")
                       ELSE log} :
            \E r \in {deleteDanglingTracks(
                          IF modified THEN buildTrackConnectionInfo(Cur, pads)
                          ELSE Cur, zones)} :
                /\ rounds' = [items |-> Len(list), erased |-> r.erased]
                /\ IF r.modified
                   THEN /\ modified' = TRUE
                        /\ IF RunsCleanSegments(opts)
                           THEN /\ SetBoard(clean_segments(r.b).b)
                                /\ log' = l1 \o <<"deleteDanglingTracks",
                                                  "clean_segments">>
                           ELSE /\ SetBoard(r.b)
                                /\ log' = Append(l1, "deleteDanglingTracks")
                   ELSE /\ SetBoard(r.b)
                        /\ modified' = modified
                        /\ log' = Append(l1, "deleteDanglingTracks")
       ELSE UNCHANGED <<list, trk, idx, removed, changed, modified, log, rounds>>
    /\ pc' = "done"
    /\ UNCHANGED <<last, pads, zones, opts, run, snap, ret>>

\* return modified;
CB_Return ==
    /\ pc = "done"
    /\ ret' = modified
    /\ run' = run + 1
    /\ pc' = "idle"
    /\ UNCHANGED <<list, trk, idx, last, pads, zones, opts, modified, log,
                   removed, changed, snap, rounds>>

NextClean ==
    \/ CB_Start
    \/ CB_Build
    \/ CB_Vias
    \/ CB_Segments
    \/ CB_Bad
    \/ CB_Dangling
    \/ CB_Return

SpecClean == InitClean /\ [][NextClean]_vars

\* ------------------------------------------------------------- the net scans
\* NET_SCAN_BASE::Execute walks the list from the start item and calls
\* ExecuteAt on the items of the start item's netcode until ExecuteAt
\* answers true or the items of another netcode are reached.

\* the items of netcode n from x on, forwards
RECURSIVE WalkForward(_, _, _, _)
WalkForward(lst, tr, x, n) ==
    IF x = NULL \/ tr[x].net # n THEN <<>>
    ELSE <<x>> \o WalkForward(lst, tr, Next_(lst, x), n)

\* the items of netcode n from x on, backwards
RECURSIVE WalkBackward(_, _, _, _)
WalkBackward(lst, tr, x, n) ==
    IF x = NULL \/ tr[x].net # n THEN <<>>
    ELSE <<x>> \o WalkBackward(lst, tr, Back(lst, x), n)

\* the order in which a scan from start comes to the items of its net: from
\* the start item in the direction of the scan up to the end of the net,
\* then from the start item in the other direction
VisitOrder(lst, tr, start, reverse) ==
    LET n == tr[start].net IN
    IF reverse
    THEN WalkBackward(lst, tr, start, n)
             \o WalkForward(lst, tr, Next_(lst, start), n)
    ELSE WalkForward(lst, tr, start, n)
             \o WalkBackward(lst, tr, Back(lst, start), n)

\* Execute: the items ExecuteAt is called on, the last of them being the
\* first for which it answers true, if any
Execute(lst, tr, start, reverse, ExecuteAt(_)) ==
    LET order == VisitOrder(lst, tr, start, reverse)
        hits == {k \in 1..Len(order) : ExecuteAt(order[k])}
    IN  IF hits = {} THEN order
        ELSE SubSeq(order, 1, CHOOSE k \in hits : \A h \in hits : k <= h)

\* the item the scan ended on when ExecuteAt answered true for it
Found(visited, ExecuteAt(_)) ==
    IF Len(visited) > 0 /\ ExecuteAt(visited[Len(visited)])
    THEN visited[Len(visited)] ELSE NULL

\* TRACK::IsOnLayer: a through via is on every copper layer
IsOnLayer(t, layer) == layer \in GetLayerSet(t)

\* a variant that compares the via's end with the point
GetViaExecuteAt_AtEnd(tr, start, pos, aTrack) ==
    /\ tr[aTrack].type = "via"
    /\ IsOnLayer(tr[aTrack], GetLayer(tr[start]))
    /\ tr[aTrack].e = pos

\* NET_SCAN_GET_VIA::ExecuteAt with m_pos = pos
GetViaExecuteAt(tr, start, pos, aTrack) ==
    /\ tr[aTrack].type = "via"
    /\ IsOnLayer(tr[aTrack], GetLayer(tr[start]))
    /\ tr[aTrack].s = pos

\* TRACKITEMS::GetVia
GetVia(lst, tr, aTrackSegAt, aPosAt) ==
    IF tr[aTrackSegAt].s = aPosAt \/ tr[aTrackSegAt].e = aPosAt
    THEN LET At(x) == GetViaExecuteAt(tr, aTrackSegAt, aPosAt, x)
             v == Execute(lst, tr, aTrackSegAt, FALSE, At)
         IN  [ret |-> Found(v, At), visited |-> v]
    ELSE [ret |-> NULL, visited |-> <<>>]

\* TRACKITEMS::EndPosVia: NET_SCAN_GET_ENDPOS_VIA looks for a via on the
\* end of the start track
EndPosVia(lst, tr, aTrackSegAt) ==
    LET At(x) == GetViaExecuteAt(tr, aTrackSegAt, tr[aTrackSegAt].e, x)
        v == Execute(lst, tr, aTrackSegAt, FALSE, At)
    IN  [ret |-> Found(v, At), visited |-> v]

\* TRACKITEMS::StartPosVia: NET_SCAN_GET_STARTPOS_VIA looks for a via on the
\* start of the start track, with m_reverse set
StartPosVia(lst, tr, aTrackSegAt) ==
    LET At(x) == GetViaExecuteAt(tr, aTrackSegAt, tr[aTrackSegAt].s, x)
        v == Execute(lst, tr, aTrackSegAt, TRUE, At)
    IN  [ret |-> Found(v, At), visited |-> v]

\* the test of NET_SCAN_VIA_BAD_CONNECTION::ExecuteAt: a via on the layer
\* whose end is nearer to the point than half its width (hypot < w >> 1)
BadConnection(tr, start, pos, aTrack) ==
    LET t == tr[aTrack]
        dx == pos[1] - t.e[1]
        dy == pos[2] - t.e[2]
        half == t.w \div 2
    IN  /\ t.type = "via"
        /\ IsOnLayer(t, GetLayer(tr[start]))
        /\ dx * dx + dy * dy < half * half

\* TRACKITEMS::GetBadConnectedVia: ExecuteAt never answers true; the answer
\* is the last via it put in the result list
GetBadConnectedVia(lst, tr, aTrackSeg, aTrackPos) ==
    LET No(x) == FALSE
        v == Execute(lst, tr, aTrackSeg, FALSE, No)
        bad == {k \in 1..Len(v) : BadConnection(tr, aTrackSeg, aTrackPos, v[k])}
    IN  [ret |-> IF bad = {} THEN NULL
                 ELSE v[CHOOSE k \in bad : \A h \in bad : h <= k],
         visited |-> v,
         result |-> {v[k] : k \in bad}]

\* TRACK::GetLength of a trace that is parallel to an axis, as the traces
\* of the boards here are
GetLength(t) ==
    LET dx == t.e[1] - t.s[1]
        dy == t.e[2] - t.s[2]
    IN  (IF dx < 0 THEN -dx ELSE dx) + (IF dy < 0 THEN -dy ELSE dy)

\* a variant that leaves the start item of the scan out
NetLengthExecuteAt_NotStart(tr, start, aTrack) ==
    IF tr[aTrack].type = "trace" /\ aTrack # start
    THEN GetLength(tr[aTrack]) ELSE 0

\* NET_SCAN_NET_LENGTH::ExecuteAt: what the item adds to m_netlength
NetLengthExecuteAt(tr, start, aTrack) ==
    IF tr[aTrack].type = "trace" THEN GetLength(tr[aTrack]) ELSE 0

\* m_netlength after ExecuteAt was called on the items of visited
RECURSIVE NetLengthOf(_, _, _)
NetLengthOf(tr, start, visited) ==
    IF visited = <<>> THEN 0
    ELSE NetLengthExecuteAt(tr, start, Head(visited))
             + NetLengthOf(tr, start, Tail(visited))

\* TRACKITEMS::GetNetLength
GetNetLength(lst, tr, aTrack) ==
    IF tr[aTrack].type = "trace"
    THEN LET No(x) == FALSE
             v == Execute(lst, tr, aTrack, FALSE, No)
         IN  [ret |-> NetLengthOf(tr, aTrack, v), visited |-> v]
    ELSE [ret |-> 0, visited |-> <<>>]

\* the points a scan is asked about
ScanPoints == {P(0), P(1), P(2), P(3)}

\* a call of a scan on a linked item: last.pre holds the items ExecuteAt was
\* called on, in order
ScanCall(name, x, r) ==
    /\ Linked(list, x)
    /\ last' = [op |-> name, arg |-> x, ret |-> r.ret, pre |-> r.visited]
    /\ UNCHANGED <<list, trk, idx>>
    /\ UNCHANGED cleanVars

\* a call of a scan for a point: last.pos holds the point and last.result
\* the result list the caller gets back
ScanCallAt(name, x, pos, r, res) ==
    /\ Linked(list, x)
    /\ last' = [op |-> name, arg |-> x, ret |-> r.ret, pre |-> r.visited,
                pos |-> pos, result |-> res]
    /\ UNCHANGED <<list, trk, idx>>
    /\ UNCHANGED cleanVars

DoGetVia(x, pos) ==
    ScanCallAt("GetVia", x, pos, GetVia(list, trk, x, pos), {})

DoEndPosVia(x) == ScanCall("EndPosVia", x, EndPosVia(list, trk, x))

DoStartPosVia(x) == ScanCall("StartPosVia", x, StartPosVia(list, trk, x))

DoGetBadConnectedVia(x, pos) ==
    \E r \in {GetBadConnectedVia(list, trk, x, pos)} :
        ScanCallAt("GetBadConnectedVia", x, pos, r, r.result)

\* a call that sets BUSY on the start item while it scans and leaves it set
DoGetNetLength_MarksStart(x) ==
    /\ Linked(list, x)
    /\ LET r == GetNetLength(list, trk, x) IN
       last' = [op |-> "GetNetLength", arg |-> x, ret |-> r.ret,
                pre |-> r.visited]
    /\ trk' = [trk EXCEPT ![x].busy = TRUE]
    /\ UNCHANGED <<list, idx>>
    /\ UNCHANGED cleanVars

DoGetNetLength(x) == ScanCall("GetNetLength", x, GetNetLength(list, trk, x))

NextScan ==
    \/ \E x \in Ids : \E pos \in ScanPoints : DoGetVia(x, pos)
    \/ \E x \in Ids : DoEndPosVia(x)
    \/ \E x \in Ids : DoStartPosVia(x)
    \/ \E x \in Ids : \E pos \in ScanPoints : DoGetBadConnectedVia(x, pos)
    \/ \E x \in Ids : DoGetNetLength(x)

\* the scans on the boards as loaded
SpecScan == InitClean /\ [][NextScan]_vars

\* ------------------------------------------------------- parallelism_test
\* the largest component of a direction vector
MaxCoord == 2

Coords == (0 - MaxCoord)..MaxCoord

\* two direction vectors <<dx1, dy1, dx2, dy2>> are given, nothing has been
\* computed; the board is empty
InitPar ==
    /\ list = <<>>
    /\ trk = [x \in Ids |-> NoTrack]
    /\ idx = <<>>
    /\ \E v \in Coords \X Coords \X Coords \X Coords :
          last = [op |-> "vectors", arg |-> v, ret |-> FALSE, pre |-> <<>>]
    /\ pads = <<>>
    /\ zones = {}
    /\ CleanerIdle

\* a call of parallelism_test on the two vectors
DoParallelismTest ==
    /\ last.op = "vectors"
    /\ last' = [op |-> "parallelism_test", arg |-> last.arg,
                ret |-> parallelism_test(last.arg[1], last.arg[2],
                                         last.arg[3], last.arg[4]),
                pre |-> <<>>]
    /\ UNCHANGED <<list, trk, idx>>
    /\ UNCHANGED cleanVars

NextPar == DoParallelismTest

SpecPar == InitPar /\ [][NextPar]_vars

\* ------------------------------------------------------------ shared notions
NetOfSeq(lst, tr) == [p \in 1..Len(lst) |-> tr[lst[p]].net]

Sorted(lst, tr) ==
    \A p \in 1..Len(lst) : \A q \in 1..Len(lst) :
        p < q => tr[lst[p]].net <= tr[lst[q]].net

NetPresent(lst, tr, n) == \E p \in 1..Len(lst) : tr[lst[p]].net = n

\* the first list item of a netcode, nullptr when there is none
FirstOfNet(lst, tr, n) ==
    IF NetPresent(lst, tr, n)
    THEN lst[CHOOSE p \in 1..Len(lst) :
                /\ tr[lst[p]].net = n
                /\ \A q \in 1..(p - 1) : tr[lst[q]].net # n]
    ELSE NULL

TypeOK ==
    /\ list \in Seq(Ids)
    /\ Len(list) <= MaxItems
    /\ \A p \in 1..Len(list) : \A q \in 1..Len(list) : p # q => list[p] # list[q]
    /\ idx \in Seq(0..MaxItems)
    /\ Len(idx) <= MaxNet + 1
    /\ pc \in {"idle", "build", "vias", "segs", "bad", "dangling", "done"}
    /\ run \in 0..MaxRuns

\* the netcodes of the list after a new item of netcode n is spliced
\* immediately before the item at (at the end for nullptr)
NetsAfterSplice(lst, tr, at, n) ==
    LET p == IF at = NULL THEN Len(lst) + 1 ELSE Pos(lst, at)
        ns == NetOfSeq(lst, tr)
    IN  SubSeq(ns, 1, p - 1) \o <<n>> \o SubSeq(ns, p, Len(ns))

NonDecreasing(ns) ==
    \A p \in 1..Len(ns) : \A q \in 1..Len(ns) : p < q => ns[p] <= ns[q]

\* every entry of a present netcode is the net's first item and every entry
\* of an absent netcode is empty
IndexUpToDate(lst, tr, ix) ==
    \A i \in Nets :
        /\ NetPresent(lst, tr, i) =>
              i < Len(ix) /\ ix[i + 1] = FirstOfNet(lst, tr, i)
        /\ (~NetPresent(lst, tr, i) /\ i < Len(ix)) => ix[i + 1] = NULL

\* ------------------------------------------------------------------ claims

\* C1: after any sequence of re-sort, insert and remove operations, for every
\* netcode that has an item in the list, get_first answers an item of that
\* netcode whose predecessor, if any, has a strictly smaller netcode.
T_C1_GetFirstIsNetHead ==
    \A n \in Nets :
        NetPresent(list, trk, n) =>
            LET r == GetFirst(list, trk, idx, n).ret IN
            /\ r # NULL
            /\ trk[r].net = n
            /\ Back(list, r) # NULL => trk[Back(list, r)].net < n

\* a remove has just taken the recorded head of a net that still has items
W_C1_HeadRemoved ==
    /\ last.op = "RemoveItem"
    /\ Len(list) >= 2
    /\ \E n \in Nets :
          /\ NetPresent(list, trk, n)
          /\ FirstOfNet(list, trk, n) # list[1]
          /\ GetFirst(list, trk, idx, n).ret = FirstOfNet(list, trk, n)

\* C2 as stated: on a sorted list with an up-to-date index, splicing the new
\* item immediately before the item best_insert_point answers keeps the
\* list in non-decreasing netcode order.
CE_C2_SpliceBeforeAnswer ==
    (Sorted(list, trk) /\ IndexUpToDate(list, trk, idx)) =>
        \A n \in Nets :
            NonDecreasing(NetsAfterSplice(list, trk,
                GetBestInsertPoint(list, trk, idx, n).ret, n))

\* C2 amended: on a sorted list with an up-to-date index the predecessor of
\* the answer, if any, has a netcode smaller than n, and splicing the new
\* item before the first item at or after the answer whose netcode is at
\* least n (at the end when there is none) keeps the order.
T_C2_SpliceAfterForwardSearch ==
    (Sorted(list, trk) /\ IndexUpToDate(list, trk, idx)) =>
        \A n \in Nets :
            LET r == GetBestInsertPoint(list, trk, idx, n).ret IN
            /\ (r # NULL /\ Back(list, r) # NULL) =>
                   trk[Back(list, r)].net < n
            /\ NonDecreasing(NetsAfterSplice(list, trk,
                   ScanFrom(list, trk, r, n), n))

\* a sorted list with an up-to-date index in which a netcode is absent
\* between two present ones and the answer for it has a predecessor
W_C2_AbsentBetween ==
    /\ Sorted(list, trk) /\ IndexUpToDate(list, trk, idx)
    /\ \E n \in Nets :
          /\ ~NetPresent(list, trk, n)
          /\ \E a \in Nets : a < n /\ NetPresent(list, trk, a)
          /\ \E b \in Nets : n < b /\ NetPresent(list, trk, b)
          /\ Back(list, GetBestInsertPoint(list, trk, idx, n).ret) # NULL

\* C3: after SortTracks the list is in non-decreasing netcode order, so every
\* netcode-0 item precedes every item of a netcode greater than 0.
T_C3_SortedAfterSort ==
    last.op = "SortTracks" =>
        /\ Sorted(list, trk)
        /\ \A p \in 1..Len(list) : \A q \in 1..Len(list) :
              (trk[list[p]].net = 0 /\ trk[list[q]].net > 0) => p < q

\* SortTracks ran on a list in which an item of a positive netcode came
\* before a netcode-0 item
W_C3_SortedUnordered ==
    /\ last.op = "SortTracks"
    /\ \E p \in 1..Len(last.pre) : \E q \in 1..Len(last.pre) :
          p < q /\ trk[last.pre[p]].net > 0 /\ trk[last.pre[q]].net = 0

\* C6 as stated: get_first answers none for every netcode that no list item
\* has, after any sequence of operations.
CE_C6_NoneForAbsentNet ==
    \A n \in Nets :
        ~NetPresent(list, trk, n) => GetFirst(list, trk, idx, n).ret = NULL

\* C7 as stated: immediately after SortTracks, every index entry is the first
\* list item of its netcode and is empty when no item has that netcode.
CE_C7_IndexRebuilt ==
    last.op = "SortTracks" => IndexUpToDate(list, trk, idx)

\* C8: SortTracks keeps the relative order of the items of one netcode, keeps
\* exactly the items of the list, and leaves a sorted list as it is.
T_C8_StableSort ==
    last.op = "SortTracks" =>
        /\ Len(list) = Len(last.pre)
        /\ \A x \in Ids : Linked(list, x) <=> Linked(last.pre, x)
        /\ \A p \in 1..Len(list) : \A q \in 1..Len(list) :
              p # q => list[p] # list[q]
        /\ \A x \in Ids : \A y \in Ids :
              (/\ Linked(last.pre, x) /\ Linked(last.pre, y)
               /\ trk[x].net = trk[y].net
               /\ Pos(last.pre, x) < Pos(last.pre, y))
              => Pos(list, x) < Pos(list, y)
        /\ Sorted(last.pre, trk) => list = last.pre

\* SortTracks moved an item and the list holds two items of one netcode
W_C8_TiesAndMoves ==
    /\ last.op = "SortTracks"
    /\ list # last.pre
    /\ \E x \in Ids : \E y \in Ids :
          /\ x # y /\ Linked(list, x) /\ Linked(list, y)
          /\ trk[x].net = trk[y].net

\* ------------------------------------------------------------ cleanup notions
AllOpts == [mis |-> TRUE, vias |-> TRUE, merge |-> TRUE, del |-> TRUE]

\* a CleanupBoard call has returned and no other has begun
Returned == pc = "idle" /\ run > 0

\* the call unlinked an item of the list it began with
SomeRemoved == \E i \in 1..Len(snap.list) : ~Linked(list, snap.list[i])

\* the call changed the start or the end of an item of the list it began with
SomeAltered ==
    \E i \in 1..Len(snap.list) :
        <<trk[snap.list[i]].s, trk[snap.list[i]].e>> # snap.pts[i]

\* the call began on three traces of one width, layer and netcode chained
\* end to end on P(0)..P(3)
ChainAtStart ==
    /\ Len(snap.list) = 3
    /\ \A k \in 1..3 : \E i \in 1..3 :
          snap.pts[i] \in {<<P(k - 1), P(k)>>, <<P(k), P(k - 1)>>}
    /\ \A i \in 1..3 : trk[snap.list[i]].type = "trace"

\* C4 as stated: the second of two successive calls with all four options
\* removes no item, rewrites no end point and returns false.
CE_C4_SecondRunNoChange ==
    (Returned /\ run = 2 /\ opts = AllOpts) =>
        /\ ~ret
        /\ ~SomeRemoved
        /\ ~SomeAltered

\* C5 as stated: CleanupBoard returns true if and only if the call removed
\* an item or changed the start or end point of an item.
CE_C5_ReturnsChanged ==
    Returned => (ret <=> (SomeRemoved \/ SomeAltered))

\* C10 as stated: one call with merge enabled turns three chained collinear
\* traces into a single trace from P(0) to P(3) of the same width and layer,
\* for every list order.
CE_C10_ChainMerged ==
    (Returned /\ run = 1 /\ ChainAtStart /\ opts.merge /\ ~opts.del) =>
        /\ Len(list) = 1
        /\ trk[list[1]].type = "trace"
        /\ {trk[list[1]].s, trk[list[1]].e} = {P(0), P(3)}
        /\ trk[list[1]].w = 1 /\ trk[list[1]].layer = 1

\* ------------------------------------------------------- order of the passes
\* the place of a pass in the order of CleanupBoard; the merge pass and the
\* bare zero-length removal share the third place
Rank(name) ==
    CASE name = "buildTrackConnectionInfo" -> 1
      [] name = "clean_vias" -> 2
      [] name = "clean_segments" -> 3
      [] name = "delete_null_segments" -> 3
      [] name = "removeBadTrackSegments" -> 4
      [] name = "deleteDanglingTracks" -> 5

\* the options of the call enable the pass
Enables(o, name) ==
    CASE name = "buildTrackConnectionInfo" -> TRUE
      [] name = "clean_vias" -> o.vias
      [] name = "clean_segments" -> o.merge
      [] name = "delete_null_segments" -> ~o.merge /\ o.mis
      [] name = "removeBadTrackSegments" -> o.mis
      [] name = "deleteDanglingTracks" -> o.del

Passes ==
    {"buildTrackConnectionInfo", "clean_vias", "clean_segments",
     "delete_null_segments", "removeBadTrackSegments", "deleteDanglingTracks"}

RanBefore(name, i) == \E j \in 1..(i - 1) : log[j] = name

\* C9: in every CleanupBoard call the connectivity build comes first, a pass
\* is run only when the options of the call enable it, a pass is begun only
\* after every enabled pass of a lower place in the order build, duplicate
\* vias, merge/zero-length, short circuits, dangling has run, and the call
\* returns only after every enabled pass has run.
T_C9_PassOrder ==
    /\ Len(log) > 0 => log[1] = "buildTrackConnectionInfo"
    /\ \A i \in 1..Len(log) :
          /\ log[i] \in Passes
          /\ Enables(opts, log[i])
          /\ \A q \in Passes :
                (Rank(q) < Rank(log[i]) /\ Enables(opts, q)) => RanBefore(q, i)
    /\ pc = "done" =>
          \A q \in Passes : Enables(opts, q) => RanBefore(q, Len(log) + 1)

\* a call with all four options has run its five passes, rebuilt the
\* connectivity after removals and merged again after the dangling removal
W_C9_AllPassesRan ==
    /\ pc = "done" /\ opts = AllOpts
    /\ \E i \in 1..Len(log) : \E j \in 1..Len(log) :
          /\ i < j
          /\ log[i] = "deleteDanglingTracks"
          /\ log[j] = "clean_segments"
    /\ \E i \in 2..Len(log) : log[i] = "buildTrackConnectionInfo"

\* ------------------------------------------------------------ duplicate vias
\* the call began on two vias of one netcode on one point
TwoViasAtStart ==
    /\ Len(snap.list) = 2
    /\ \A i \in 1..2 : trk[snap.list[i]].type = "via"
    /\ snap.pts[1][1] = snap.pts[2][1]
    /\ trk[snap.list[1]].net = trk[snap.list[2]].net

\* a pad on every copper layer covers the point
ThroughPadAt(pt) ==
    \E k \in 1..Len(pads) :
        HitTest(pads[k], pt) /\ pads[k].layers \cap AllCuMask = AllCuMask

\* a pad on every copper layer covers an end of an item the call began with
ThroughPadAtStart ==
    \E i \in 1..Len(snap.list) :
        ThroughPadAt(snap.pts[i][1]) \/ ThroughPadAt(snap.pts[i][2])

\* C11 as stated: of two through vias of one netcode on one point a call
\* with duplicate-via removal enabled leaves exactly one in the list.
CE_C11_OneViaLeft ==
    (Returned /\ TwoViasAtStart /\ opts.vias) =>
        (Len(list) = 1 /\ \E i \in 1..2 : list[1] = snap.list[i])

\* C11 amended: when no pad on every copper layer covers an end of either
\* via, a call
\* with duplicate-via removal enabled and short-circuit and dangling removal
\* disabled leaves exactly the first of the two vias in the list.
T_C11_FirstViaLeft ==
    (Returned /\ TwoViasAtStart /\ opts.vias /\ ~opts.mis /\ ~opts.del
       /\ ~ThroughPadAtStart) =>
        list = <<snap.list[1]>>

W_C11_DuplicateRemoved ==
    /\ Returned /\ TwoViasAtStart /\ opts.vias /\ ~opts.mis /\ ~opts.del
    /\ ~ThroughPadAtStart
    /\ removed = <<snap.list[2]>>
    /\ ret

\* ------------------------------------------------------------ short circuits
\* item i of the list the call began with is a trace whose ends lie on pads
\* of its layer that have different netcodes
ShortAtStart(i) ==
    /\ trk[snap.list[i]].type = "trace"
    /\ \E k \in 1..Len(pads) : \E l \in 1..Len(pads) :
          /\ HitTest(pads[k], snap.pts[i][1])
          /\ HitTest(pads[l], snap.pts[i][2])
          /\ trk[snap.list[i]].layer \in pads[k].layers \cap pads[l].layers
          /\ pads[k].net # pads[l].net

\* C12: a call with short-circuit removal enabled removes every trace whose
\* two ends lie on pads of two different netcodes, whatever the netcode of
\* the trace.
T_C12_ShortedTraceRemoved ==
    (Returned /\ opts.mis) =>
        \A i \in 1..Len(snap.list) : ShortAtStart(i) => ~Linked(list, snap.list[i])

\* removeBadTrackSegments has removed such a trace whose netcode is that of
\* one of the two pads
W_C12_OwnNetOnOnePad ==
    /\ Returned /\ opts.mis /\ ~opts.del
    /\ Len(snap.list) = 1 /\ ShortAtStart(1)
    /\ \E k \in 1..Len(pads) : pads[k].net = trk[snap.list[1]].net
    /\ removed = <<snap.list[1]>>

\* ----------------------------------------------------------- dangling tracks
\* when the call began, a pad covered the point
PadAt(pt) == \E k \in 1..Len(pads) : HitTest(pads[k], pt)

\* a filled area lies over the point
ZoneAt(pt) == \E z \in zones : z.pos = pt

\* when the call began, an item other than items i and j had an end on the point
OtherAt(pt, i, j) ==
    \E k \in 1..Len(snap.list) :
        k # i /\ k # j /\ (snap.pts[k][1] = pt \/ snap.pts[k][2] = pt)

\* item i of the list the call began with is a trace with an end on which
\* there is no pad, no other item and no filled area
FloatingAtStart(i) ==
    /\ trk[snap.list[i]].type = "trace"
    /\ \E e \in 1..2 :
          LET pt == snap.pts[i][e] IN
          ~PadAt(pt) /\ ~OtherAt(pt, i, i) /\ ~ZoneAt(pt)

\* item i is a via and item j a trace with an end on it, and the via has no
\* pad, no other item and no filled area on it
TraceEndsInFreeVia(i, j) ==
    /\ trk[snap.list[i]].type = "via"
    /\ snap.pts[i][1] = snap.pts[i][2]
    /\ trk[snap.list[j]].type = "trace"
    /\ LET pt == snap.pts[i][1] IN
          /\ snap.pts[j][1] = pt \/ snap.pts[j][2] = pt
          /\ ~PadAt(pt) /\ ~OtherAt(pt, i, j) /\ ~ZoneAt(pt)

\* C13: a call with dangling removal enabled removes every trace that has an
\* end with no pad, no other item and no filled area on it, and removes both
\* a via with nothing else on it and the trace that ends on that via.
T_C13_DanglingRemoved ==
    (Returned /\ opts.del) =>
        /\ \A i \in 1..Len(snap.list) :
              FloatingAtStart(i) => ~Linked(list, snap.list[i])
        /\ \A i \in 1..Len(snap.list) : \A j \in 1..Len(snap.list) :
              TraceEndsInFreeVia(i, j) =>
                  (~Linked(list, snap.list[i]) /\ ~Linked(list, snap.list[j]))

\* the chain from a pad to a free via is gone after a call with only
\* dangling removal: the trace on the via, then the via and the first trace
W_C13_ChainToFreeViaRemoved ==
    /\ Returned /\ opts = [mis |-> FALSE, vias |-> FALSE, merge |-> FALSE,
                           del |-> TRUE]
    /\ Len(snap.list) = 3 /\ Len(pads) = 1 /\ list = <<>>
    /\ \E i \in 1..3 : \E j \in 1..3 :
          /\ TraceEndsInFreeVia(i, j)
          /\ removed[1] = snap.list[j]
          /\ \E k \in 1..3 : k # i /\ k # j /\ ~FloatingAtStart(k)

\* ------------------------------------------------------- zero-length segments
\* delete_null_segments has just run as the only pass of the call so far
\* that changes the board: the items are those the call began with
NullPassDone ==
    /\ pc = "bad"
    /\ ~opts.vias
    /\ Len(log) > 0 /\ log[Len(log)] = "delete_null_segments"

\* item i of the list the call began with is in the list with the end
\* points it had
Untouched(i) ==
    /\ Linked(list, snap.list[i])
    /\ <<trk[snap.list[i]].s, trk[snap.list[i]].e>> = snap.pts[i]

T_C15_DanglingRoundsBounded ==
    LET e == rounds.erased IN
    /\ \A k \in 1..Len(e) : (k < Len(e)) <=> (e[k] >= 1)
    /\ Len(e) > 0 => Len(e) - 1 <= rounds.items
    /\ Len(e) = 0 => rounds.items = 0

\* a pass of three rounds: two that erased items, then one that erased none
W_C15_TwoErasingRounds ==
    /\ pc = "done"
    /\ Len(rounds.erased) = 3
    /\ rounds.erased[1] >= 1 /\ rounds.erased[2] >= 1 /\ rounds.erased[3] = 0

\* ------------------------------------------------------- reports to m_commit
\* the number of times m_commit was told that the item is removed
TimesRemoved(x) == Cardinality({k \in 1..Len(removed) : removed[k] = x})

\* the end points of item i of the list the call began with are not those
\* it had when the call began
Rewritten(i) == <<trk[snap.list[i]].s, trk[snap.list[i]].e>> # snap.pts[i]

\* C16 as stated: every item the call unlinked was reported to m_commit as
\* removed exactly once, every item whose end point the call rewrote was
\* reported as modified, and no item still in the list was reported as
\* removed.
CE_C16_CommitTold ==
    Returned =>
        \A i \in 1..Len(snap.list) :
            LET x == snap.list[i] IN
            /\ ~Linked(list, x) => TimesRemoved(x) = 1
            /\ Linked(list, x) => TimesRemoved(x) = 0
            /\ Rewritten(i) => x \in changed

\* ----------------------------------------------------------------- net scans
ScanOps ==
    {"GetVia", "EndPosVia", "StartPosVia", "GetBadConnectedVia", "GetNetLength"}

\* the last operation was a scan that called ExecuteAt
Scanned == last.op \in ScanOps /\ Len(last.pre) > 0

\* the last scan ended because ExecuteAt answered true
SignalledFound ==
    last.op \in {"GetVia", "EndPosVia", "StartPosVia"} /\ last.ret # NULL

\* the items of netcode n in the list
NetItems(n) == {x \in Ids : Linked(list, x) /\ trk[x].net = n}

\* the sum of the lengths of the traces among the items of the set
RECURSIVE TraceLength(_)
TraceLength(S) ==
    IF S = {} THEN 0
    ELSE LET x == CHOOSE y \in S : TRUE IN
         (IF trk[x].type = "trace" THEN GetLength(trk[x]) ELSE 0)
             + TraceLength(S \ {x})

ViasPassDone ==
    pc = "segs" /\ Len(log) > 0 /\ log[Len(log)] = "clean_vias"

\* C19: after clean_vias has returned, every via that is still in the list
\* has its end on its start.
CE_C19_EveryViaCorrected ==
    ViasPassDone =>
        \A x \in Ids :
            (Linked(list, x) /\ trk[x].type = "via") => trk[x].e = trk[x].s

\* ------------------------------------------- netcodes beyond the index's size
\* the step is a BOARD::Add of an item whose netcode the index does not cover
AddsBeyond == last'.op = "AddItem" /\ last'.arg >= Len(idx)

\* the step is a GetFirst of a netcode the index does not cover
GetsBeyond == last'.op = "GetFirst" /\ last'.arg >= Len(idx)

\* the step is a BOARD::Remove of item x, whose netcode the index does not
\* cover
RemovesBeyond(x) ==
    /\ last'.op = "RemoveItem"
    /\ Linked(list, x) /\ ~Linked(list', x)
    /\ trk[x].net >= Len(idx)

\* C20: an item whose netcode is at or beyond the size of the index is taken
\* into the list, and the index grows to one entry more than that netcode,
\* its old entries as they were; GetFirst of such a netcode answers nullptr
\* and Remove of such an item does nothing to the index: every entry and the
\* size stay as they were.
T_C20_NetcodeBeyondIndex ==
    [][/\ AddsBeyond =>
            /\ Len(list') = Len(list) + 1
            /\ \E x \in Ids : /\ ~Linked(list, x) /\ Linked(list', x)
                              /\ trk'[x].net = last'.arg
            /\ Len(idx') = last'.arg + 1
            /\ SubSeq(idx', 1, Len(idx)) = idx
       /\ GetsBeyond => (last'.ret = NULL /\ idx' = idx)
       /\ \A x \in Ids : RemovesBeyond(x) => idx' = idx]_vars

\* GetFirst has answered nullptr for a netcode the index does not cover
\* although an item of that netcode is in the list
W_C20_NoneForItemInList ==
    /\ last.op = "GetFirst" /\ last.arg >= Len(idx) /\ last.ret = NULL
    /\ idx # <<>>
    /\ \E x \in Ids : Linked(list, x) /\ trk[x].net = last.arg

\* ------------------------------------------------------- stale index entries
\* the entry of netcode n is not empty and is not the first item of the net
Stale(n) ==
    /\ n < Len(idx) /\ idx[n + 1] # NULL
    /\ idx[n + 1] # FirstOfNet(list, trk, n)

\* C21: on a list in netcode order, when the entry of a netcode that has
\* items is stale (an item of the net that is not its first, an item at
\* another place, an unlinked item), get_first answers the first item of the
\* net and stores it in the entry.
CE_C21_StaleEntryResynced ==
    \A n \in Nets :
        (Sorted(list, trk) /\ NetPresent(list, trk, n) /\ Stale(n)) =>
            LET g == GetFirst(list, trk, idx, n) IN
            /\ g.ret = FirstOfNet(list, trk, n)
            /\ g.ix[n + 1] = FirstOfNet(list, trk, n)

\* ------------------------------------------------------------- index remove
\* the step is a BOARD::Remove of item x
Removes(x) ==
    last'.op = "RemoveItem" /\ Linked(list, x) /\ ~Linked(list', x)

\* x is the recorded head of its netcode
RecordedHead(x) == trk[x].net < Len(idx) /\ idx[trk[x].net + 1] = x

\* the neighbour of x that takes the entry over: the predecessor of the same
\* netcode, else the successor of the same netcode, else nullptr
Heir(x) ==
    IF Back(list, x) # NULL /\ trk[Back(list, x)].net = trk[x].net
    THEN Back(list, x)
    ELSE IF Next_(list, x) # NULL /\ trk[Next_(list, x)].net = trk[x].net
         THEN Next_(list, x)
         ELSE NULL

\* C22: a remove changes the index only when the item is the recorded head
\* of its netcode; the entry then becomes the predecessor of the same
\* netcode, else the successor of the same netcode, else empty, and no other
\* entry changes; after the first item of a net that has further items is
\* removed as recorded head from a list in netcode order, get_first answers
\* the net's next item.
T_C22_RemoveRepointsHead ==
    [][\A x \in Ids : Removes(x) =>
          /\ ~RecordedHead(x) => idx' = idx
          /\ RecordedHead(x) =>
                /\ Len(idx') = Len(idx)
                /\ \A k \in 1..Len(idx) :
                      idx'[k] = IF k = trk[x].net + 1 THEN Heir(x) ELSE idx[k]
          /\ (/\ RecordedHead(x) /\ Sorted(list, trk)
              /\ x = FirstOfNet(list, trk, trk[x].net)
              /\ NetPresent(list', trk', trk[x].net)) =>
                /\ Next_(list, x) # NULL
                /\ GetFirst(list', trk', idx', trk[x].net).ret = Next_(list, x)]_vars

\* a remove has just taken a recorded head that had a predecessor of its
\* netcode, and the entry holds an item of the netcode that is not the
\* net's first
W_C22_EntryWentToPredecessor ==
    /\ last.op = "RemoveItem" /\ last.ret = 1
    /\ idx[last.arg + 1] # NULL
    /\ Linked(list, idx[last.arg + 1])
    /\ trk[idx[last.arg + 1]].net = last.arg

\* ------------------------------------------------------------- index insert
\* the step is a BOARD::Add; last'.ret is the new item, last'.arg its netcode
Adds == last'.op = "AddItem" /\ ~Linked(list, last'.ret)

\* the index as GetBestInsertPoint left it, before Insert is called
BeforeInsert == GetBestInsertPoint(list, trk', idx, last'.arg).ix

\* the new item heads its net: no predecessor, or one of a smaller netcode
NewHeads ==
    \/ Back(list', last'.ret) = NULL
    \/ trk'[Back(list', last'.ret)].net < last'.arg

\* C23: Insert changes at most the entry of the item's own netcode, and sets
\* it to the item when, and only when, the item has no predecessor or one of
\* a smaller netcode; when the predecessor has the item's netcode every
\* existing entry stays as it was.
T_C23_InsertSetsOwnEntryOnly ==
    [][Adds =>
          /\ Len(idx') >= Len(BeforeInsert)
          /\ \A k \in 1..Len(idx') :
                k # last'.arg + 1 =>
                    idx'[k] = IF k <= Len(BeforeInsert)
                              THEN BeforeInsert[k] ELSE NULL
          /\ NewHeads => idx'[last'.arg + 1] = last'.ret
          /\ ~NewHeads =>
                /\ idx'[last'.arg + 1] # last'.ret
                /\ \A k \in 1..Len(BeforeInsert) : idx'[k] = BeforeInsert[k]]_vars

\* an item has just been added behind an item of its netcode, and the entry
\* of the netcode holds another item
W_C23_AddedBehindSameNet ==
    /\ last.op = "AddItem"
    /\ Back(list, last.ret) # NULL
    /\ trk[Back(list, last.ret)].net = last.arg
    /\ idx[last.arg + 1] # NULL /\ idx[last.arg + 1] # last.ret

\* ------------------------------------------------- the DEBUG assertion
\* the wxASSERT_MSG of GetBestInsertPoint for a call with netcode n
AssertionHolds(n) ==
    LET ret_item == GetBestInsertPoint(list, trk, idx, n).ret IN
    (ret_item # NULL /\ Back(list, ret_item) # NULL) =>
        trk[Back(list, ret_item)].net < n

\* C24: in every state reached by SortTracks, BOARD::Add and BOARD::Remove
\* the list is in netcode order, and for every netcode the item
\* GetBestInsertPoint answers has no predecessor or one of a smaller netcode:
\* the assertion of the DEBUG build holds for every call.
T_C24_AssertionNeverFails ==
    /\ Sorted(list, trk)
    /\ \A n \in Nets : AssertionHolds(n)

\* the head of a net has just been removed and its successor taken the
\* entry; the answer for that net has a predecessor
W_C24_AnswerBehindSmallerNet ==
    /\ last.op = "RemoveItem" /\ last.ret = 2
    /\ NetPresent(list, trk, last.arg)
    /\ Back(list, GetBestInsertPoint(list, trk, idx, last.arg).ret) # NULL

\* --------------------------------------------------- entries and the list
\* C25: in every state reached by SortTracks, BOARD::Add and BOARD::Remove
\* every non-empty index entry holds an item that is linked in the list (and
\* has the netcode of the entry).
T_C25_EntriesAreLinked ==
    \A k \in 1..Len(idx) :
        idx[k] # NULL => (Linked(list, idx[k]) /\ trk[idx[k]].net = k - 1)

\* the only item of a net has just been removed and its entry emptied, while
\* the entry of another net holds an item
W_C25_LastOfNetRemoved ==
    /\ last.op = "RemoveItem" /\ last.ret = 3
    /\ idx[last.arg + 1] = NULL
    /\ \E k \in 1..Len(idx) : idx[k] # NULL

\* ------------------------------------------------- the short-circuit sweep
\* the step is CleanupBoard's call of removeBadTrackSegments
BadStep == pc = "bad" /\ pc' = "dangling" /\ RunsRemoveBad(opts)

\* the sweep of this step flagged the item (the flagged items, and no
\* others, are unlinked by the step)
Flagged(x) == Linked(list, x) /\ ~Linked(list', x)

\* the items connected to the item when the sweep runs
Touches(x) == TracksTouching(list, trk, x)

\* a pad connected to the item has another netcode
PadOfOtherNet(x) ==
    \E k \in trk[x].pads \cup PadsTouching(pads, trk[x]) :
        pads[k].net # trk[x].net

\* C26 as stated: in the sweep an item visited later that touches an
\* already-flagged item is itself flagged.
CE_C26_FlaggedContaminates ==
    [][BadStep =>
          \A x \in Ids : \A y \in Ids :
              (/\ Flagged(x) /\ Linked(list, y)
               /\ Pos(list, x) < Pos(list, y)
               /\ x \in Touches(y)) => Flagged(y)]_vars

\* C26 amended: an already-flagged item does not count.  An item is flagged
\* exactly when a pad connected to it has another netcode, or an item
\* connected to it has another netcode and is not flagged when the item is
\* visited: an earlier one the sweep left unflagged, or a later one whose
\* FLAG0 was clear before the sweep.
T_C26_FlaggedDoesNotCount ==
    [][BadStep =>
          \A y \in Ids :
              Linked(list, y) =>
                  (Flagged(y) <=>
                      \/ PadOfOtherNet(y)
                      \/ \E t \in Touches(y) :
                            /\ trk[t].net # trk[y].net
                            /\ IF Pos(list, t) < Pos(list, y)
                               THEN ~Flagged(t) ELSE ~trk[t].flag0)]_vars

\* a call with short-circuit removal alone removed one item, and an item
\* that stood later in the list, touches it and has another netcode is
\* still in the list
W_C26_LaterItemSurvives ==
    /\ pc = "dangling"
    /\ opts = [mis |-> TRUE, vias |-> FALSE, merge |-> FALSE, del |-> FALSE]
    /\ log = <<"buildTrackConnectionInfo", "delete_null_segments",
               "removeBadTrackSegments", "buildTrackConnectionInfo">>
    /\ Len(removed) = 1
    /\ \E y \in Ids :
          /\ Linked(list, y)
          /\ Pos(snap.list, removed[1]) < Pos(snap.list, y)
          /\ trk[y].net # trk[removed[1]].net
          /\ GetLayerSet(trk[y]) \cap GetLayerSet(trk[removed[1]]) # {}
          /\ {trk[y].s, trk[y].e} \cap {trk[removed[1]].s, trk[removed[1]].e} # {}

\* the two items touch, have different netcodes, touch no other item and no
\* pad of another netcode, and x stands before y in the list
LonePair(x, y) ==
    /\ Linked(list, x) /\ Linked(list, y)
    /\ Pos(list, x) < Pos(list, y)
    /\ trk[x].net # trk[y].net
    /\ Touches(x) = {y} /\ Touches(y) = {x}
    /\ ~PadOfOtherNet(x) /\ ~PadOfOtherNet(y)

\* C27: of two touching items of different netcodes that touch nothing else
\* of another netcode, removeBadTrackSegments removes the earlier one and
\* keeps the later one; afterwards no item of the list has an unlinked item
\* in m_TracksConnected.
T_C27_EarlierOfPairRemoved ==
    [][BadStep =>
          /\ \A x \in Ids : \A y \in Ids :
                LonePair(x, y) => (Flagged(x) /\ Linked(list', y))
          /\ \A y \in Ids :
                Linked(list', y) =>
                    \A t \in trk'[y].conn : Linked(list', t)]_vars

\* the call began on two touching items of different netcodes without pads;
\* the first has been removed by removeBadTrackSegments and the second is in
\* the list with an empty m_TracksConnected
W_C27_SecondOfTwoKept ==
    /\ pc = "dangling" /\ opts.mis
    /\ pads = <<>>
    /\ Len(snap.list) = 2
    /\ removed = <<snap.list[1]>>
    /\ list = <<snap.list[2]>>
    /\ log[Len(log) - 1] = "removeBadTrackSegments"
    /\ trk[snap.list[1]].net # trk[snap.list[2]].net
    /\ trk[snap.list[2]].conn = {}

\* ------------------------------------------------------------ the merge pass
\* the step is CleanupBoard's call of clean_segments
SegStep == pc = "segs" /\ pc' = "bad" /\ RunsCleanSegments(opts)

\* the board the third loop of clean_segments starts on
BeforeMergeLoop ==
    LET Dup(n) == DupAllLoop(n.b, First(n.b.list), n.modified)
    IN  Dup(delete_null_segments(Cur)).b

\* the runs of the endpoint loop of merge_collinear_of_track that the third
\* loop of clean_segments makes from segment on, in order: the board before,
\* the segment, the endpoint and the outcome
RECURSIVE MergeCalls(_, _)
MergeCalls(b, segment) ==
    IF segment = NULL THEN <<>>
    ELSE IF b.trk[segment].type = "trace"
         THEN LET Both(m1, m2) ==
                      <<[b |-> b, seg |-> segment, ep |-> "START", m |-> m1],
                        [b |-> m1.b, seg |-> segment, ep |-> "END", m |-> m2]>>
                          \o MergeCalls(m2.b, Next_(m2.b.list, segment))
                  AtEnd(m1) == Both(m1, MergeAtEndpoint(m1.b, segment, "END"))
              IN  AtEnd(MergeAtEndpoint(b, segment, "START"))
         ELSE MergeCalls(b, Next_(b.list, segment))

\* the runs of this step
Calls == MergeCalls(BeforeMergeLoop, First(BeforeMergeLoop.list))

\* the runs of this step that merged
Merges == {k \in 1..Len(Calls) : Calls[k].m.merged}

\* the candidate the run removed
Cand(c) == CHOOSE x \in Ids : Linked(c.b.list, x) /\ ~Linked(c.m.b.list, x)

\* the end point of the reference the run worked on
SharedPoint(c) == GetEndPoint(c.b.trk[c.seg], c.ep)

\* the reference's flag for that end point
OnPad(c) == IF c.ep = "START" THEN c.b.trk[c.seg].sop ELSE c.b.trk[c.seg].eop

\* an item other than the two is connected at that end point
ThirdAt(c) ==
    \E z \in Ids :
        /\ Linked(c.b.list, z) /\ z # c.seg /\ z # Cand(c)
        /\ c.b.trk[z].net = c.b.trk[c.seg].net
        /\ GetLayerSet(c.b.trk[z]) \cap GetLayerSet(c.b.trk[c.seg]) # {}
        /\ SharedPoint(c) \in {c.b.trk[z].s, c.b.trk[z].e}

\* the cross product of the two direction vectors is zero
CrossIsZero(r, t) ==
    (r.e[2] - r.s[2]) * (t.e[1] - t.s[1]) = (r.e[1] - r.s[1]) * (t.e[2] - t.s[2])

\* the two items have the same two end points, in either order
SameEnds(r, t) == {r.s, r.e} = {t.s, t.e}

\* the conditions of the merge other than the pad flag
PairFits(c) ==
    LET r == c.b.trk[c.seg]
        t == c.b.trk[Cand(c)]
    IN  /\ r.type = "trace" /\ t.type = "trace"
        /\ r.w = t.w
        /\ SharedPoint(c) \in {t.s, t.e}
        /\ ~ThirdAt(c)
        /\ CrossIsZero(r, t)

\* the list the step leaves is the list after the last run
CallsEndAt(lst) ==
    lst = IF Len(Calls) = 0 THEN BeforeMergeLoop.list
          ELSE Calls[Len(Calls)].m.b.list

FarPoint(c) ==
    LET t == c.b.trk[Cand(c)] IN IF t.s = SharedPoint(c) THEN t.e ELSE t.s

FarOnPad(c) ==
    LET t == c.b.trk[Cand(c)] IN IF t.s = SharedPoint(c) THEN t.eop ELSE t.sop

\* the reference after the run has the candidate's far end point and its
\* flag in place of the shared end point; the rest of it is as before
Extended(c) ==
    LET r == c.b.trk[c.seg]
        a == c.m.b.trk[c.seg]
    IN  a = IF c.ep = "START"
            THEN [r EXCEPT !.s = FarPoint(c), !.sop = FarOnPad(c)]
            ELSE [r EXCEPT !.e = FarPoint(c), !.eop = FarOnPad(c)]

\* the run removed the candidate and left every item but the reference as
\* it was
CandidateGone(c) ==
    /\ c.m.b.list = Unlink(c.b.list, Cand(c))
    /\ \A z \in Ids : z # c.seg => c.m.b.trk[z] = c.b.trk[z]

Tested == last.op = "parallelism_test"

\* the cross product dy1*dx2 - dx1*dy2 of the two vectors
Cross(v) == v[2] * v[3] - v[1] * v[4]

\* C30 as stated: parallelism_test answers true exactly when the cross
\* product of the two vectors is zero, the zero vector and vectors with a
\* zero component included.
CE_C30_ExactlyCrossProduct ==
    Tested => (last.ret <=> Cross(last.arg) = 0)

\* -------------------------------------------------- duplicates of a track
\* the board the second loop of clean_segments starts on
AfterNull == delete_null_segments(Cur).b

\* the two items have one netcode, one type, one layer and the same two end
\* points, in either order
Alike(r, t) ==
    /\ r.net = t.net /\ r.type = t.type /\ GetLayer(r) = GetLayer(t)
    /\ SameEnds(r, t)

\* the second loop took the board from b to d: no two items stay that are
\* alike; every item it unlinked stood behind one alike that stays; nothing
\* else of the board changed
DuplicatesGone(b, d) ==
    /\ \A x \in Ids : \A y \in Ids :
          (x # y /\ Linked(d.list, x) /\ Linked(d.list, y)) =>
              ~Alike(d.trk[x], d.trk[y])
    /\ \A y \in Ids :
          (Linked(b.list, y) /\ ~Linked(d.list, y)) =>
              \E x \in Ids :
                  /\ Linked(d.list, x)
                  /\ Pos(b.list, x) < Pos(b.list, y)
                  /\ Alike(b.trk[x], b.trk[y])
    /\ d.list = SelectSeq(b.list, LAMBDA x : Linked(d.list, x))
    /\ d.trk = b.trk

\* C31: the duplicate-removal loop of clean_segments leaves no two items of
\* one netcode, type and layer with the same pair of end points; of items
\* that are alike the earliest stays, and an item is removed only when an
\* earlier item alike stays.
T_C31_DuplicatesRemoved ==
    [][SegStep => DuplicatesGone(AfterNull, BeforeMergeLoop)]_vars

\* a call with the merge option alone began on two traces of one netcode
\* and layer whose end points are swapped; the second has been removed
W_C31_SwappedPairReduced ==
    /\ pc = "bad"
    /\ opts = [mis |-> FALSE, vias |-> FALSE, merge |-> TRUE, del |-> FALSE]
    /\ Len(snap.list) = 2
    /\ snap.pts[1][1] = snap.pts[2][2] /\ snap.pts[1][2] = snap.pts[2][1]
    /\ snap.pts[1][1] # snap.pts[1][2]
    /\ list = <<snap.list[1]>>
    /\ removed = <<snap.list[2]>>

\* ------------------------------------------------- connectivity rebuilds
\* the step unlinks an item or rewrites an end point of an item
Alters ==
    \/ list' # list
    \/ \E x \in Ids : /\ Linked(list, x) /\ Linked(list', x)
                      /\ <<trk'[x].s, trk'[x].e>> # <<trk[x].s, trk[x].e>>

\* an item of the call's board is gone or has a moved end point
Dirty ==
    \/ list # snap.list
    \/ \E i \in 1..Len(snap.list) : Rewritten(i)

\* in the order of passes lg the pass name stands behind a connectivity
\* build wherever it stands
BuiltBefore(lg, name) ==
    \A k \in 1..Len(lg) :
        lg[k] = name => (k > 1 /\ lg[k - 1] = "buildTrackConnectionInfo")

\* C32 as stated: whenever a pass of a run has removed or restructured an
\* item, buildTrackConnectionInfo runs again before the next pass that
\* reads the on-pad flags or the connected-pad lists starts: clean_segments
\* does not start on what a modifying clean_vias left, deleteDanglingTracks
\* starts behind a build whenever the board is no longer the call's board,
\* and the second clean_segments does not follow deleteDanglingTracks
\* directly.
CE_C32_RebuiltBeforeReader ==
    [][/\ (pc = "vias" /\ pc' = "segs" /\ Alters) => ~RunsCleanSegments(opts)
       /\ (pc = "dangling" /\ pc' = "done" /\ RunsDangling(opts)) =>
            /\ Dirty => BuiltBefore(log', "deleteDanglingTracks")
            /\ \A k \in 2..Len(log') :
                  log'[k] = "clean_segments" =>
                      log'[k - 1] # "deleteDanglingTracks"]_vars

\* ------------------------------------------------- vias on through pads
\* a pad of the item's connected-pad list lies on every copper layer
OnThroughPad(x) ==
    \E k \in trk[x].pads : pads[k].layers \cap AllCuMask = AllCuMask

\* C33 as stated: after clean_vias has returned no through via is left in
\* the list that has a connected pad on every copper layer, the vias behind
\* an already removed via included.
CE_C33_NoViaOnThroughPad ==
    ViasPassDone =>
        \A x \in Ids :
            (Linked(list, x) /\ trk[x].type = "via") => ~OnThroughPad(x)

\* ------------------------------------------------- the third step's choice
\* the items of the list that are not null, in list order
NonNull == SelectSeq(list, LAMBDA x : ~IsNull(trk[x]))

\* C34: the third step of a run is clean_segments when merging is enabled,
\* delete_null_segments alone (the null segments go, nothing else changes)
\* when merging is disabled and short-circuit removal enabled, and nothing
\* when both are disabled; in the dangling step clean_segments runs behind
\* deleteDanglingTracks exactly when that pass erased an item and merging is
\* enabled.
T_C34_ThirdStepByOptions ==
    [][/\ (pc = "segs" /\ pc' = "bad") =>
            IF opts.merge THEN log' = Append(log, "clean_segments")
            ELSE IF opts.mis
            THEN /\ log' = Append(log, "delete_null_segments")
                 /\ list' = NonNull
                 /\ \A x \in Ids : Linked(list', x) => trk'[x] = trk[x]
            ELSE /\ log' = log /\ list' = list /\ trk' = trk
       /\ (pc = "dangling" /\ pc' = "done") =>
            IF opts.del
            THEN /\ Len(log') > 0
                 /\ (log'[Len(log')] = "clean_segments") <=>
                        (opts.merge /\ \E k \in 1..Len(rounds'.erased) :
                                            rounds'.erased[k] > 0)
                 /\ log'[Len(log')] # "clean_segments" =>
                        log'[Len(log')] = "deleteDanglingTracks"
                 /\ log'[Len(log')] = "clean_segments" =>
                        log'[Len(log') - 1] = "deleteDanglingTracks"
            ELSE log' = log]_vars

\* a call with the merge and dangling options began on three items; the
\* dangling pass erased one and clean_segments ran again and merged the
\* two that were left
W_C34_MergedAfterDangling ==
    /\ pc = "done"
    /\ opts = [mis |-> FALSE, vias |-> FALSE, merge |-> TRUE, del |-> TRUE]
    /\ Len(log) >= 2
    /\ log[Len(log)] = "clean_segments"
    /\ log[Len(log) - 1] = "deleteDanglingTracks"
    /\ Len(snap.list) = 3 /\ Len(list) = 1

\* ------------------------------------------------ what dangling removal leaves
\* the step is the dangling stage of a call that has the pass enabled
DanglingStep == pc = "dangling" /\ pc' = "done" /\ RunsDangling(opts)

\* the board deleteDanglingTracks starts on, and the board it returns
BeforeDangling == IF modified THEN buildTrackConnectionInfo(Cur, pads) ELSE Cur
AfterDangling == deleteDanglingTracks(BeforeDangling, zones).b

EndPoints == {"START", "END"}

\* the end point of item x of board b is flagged as lying on a pad
FlaggedOnPad(b, x, ep) ==
    IF ep = "START" THEN b.trk[x].sop ELSE b.trk[x].eop

\* the items of board b, other than x, of x's netcode and on a layer of x
\* that have an end on the point
OthersAt(b, x, pt) ==
    {y \in Ids : /\ y # x /\ Linked(b.list, y)
                 /\ b.trk[y].net = b.trk[x].net
                 /\ GetLayerSet(b.trk[y]) \cap GetLayerSet(b.trk[x]) # {}
                 /\ (b.trk[y].s = pt \/ b.trk[y].e = pt)}

\* a filled area of x's netcode on a layer of x lies over the point
InZone(b, x, pt) ==
    \E z \in zones : /\ z.pos = pt /\ z.net = b.trk[x].net
                     /\ z.layer \in GetLayerSet(b.trk[x])

\* via v of board b has no item but x attached and no filled area under it
LoneVia(b, v, x) ==
    /\ b.trk[v].type = "via"
    /\ OthersAt(b, v, b.trk[v].s) \cup OthersAt(b, v, b.trk[v].e) \subseteq {x}
    /\ ~InZone(b, v, b.trk[v].s) /\ ~InZone(b, v, b.trk[v].e)

\* every item of board b has each end flagged on a pad, on an end of another
\* item or in a filled area, and no trace has an end held by nothing but
\* vias that have nothing else attached
AllSupported(b) ==
    \A x \in Ids : \A ep \in EndPoints :
        Linked(b.list, x) =>
            LET pt == GetEndPoint(b.trk[x], ep) IN
            /\ \/ FlaggedOnPad(b, x, ep)
               \/ OthersAt(b, x, pt) # {}
               \/ InZone(b, x, pt)
            /\ b.trk[x].type = "trace" =>
                  \/ FlaggedOnPad(b, x, ep)
                  \/ InZone(b, x, pt)
                  \/ \E v \in OthersAt(b, x, pt) : ~LoneVia(b, v, x)

\* C35: when deleteDanglingTracks returns, every item left in the list has
\* each end flagged on-pad, or on an end of another item of its netcode on
\* a shared layer, or in a filled area of its netcode, and no trace is held
\* at an end by nothing but a via with no other item attached and no filled
\* area under it.
T_C35_SurvivorsSupported ==
    [][DanglingStep => AllSupported(AfterDangling)]_vars

\* a call with dangling removal alone has erased an item and left a trace
\* of which an end is on no pad
W_C35_KeptOffPad ==
    /\ pc = "done"
    /\ opts = [mis |-> FALSE, vias |-> FALSE, merge |-> FALSE, del |-> TRUE]
    /\ Len(removed) > 0
    /\ \E x \in Ids : /\ Linked(list, x) /\ trk[x].type = "trace"
                      /\ ~(trk[x].sop /\ trk[x].eop)

\* --------------------------------------------------- items between two pads
\* C36: deleteDanglingTracks removes no item of which the start and the end
\* are both flagged on-pad, in whatever round.
T_C36_PadToPadKept ==
    [][DanglingStep =>
          \A x \in Ids :
              (Linked(BeforeDangling.list, x)
                 /\ FlaggedOnPad(BeforeDangling, x, "START")
                 /\ FlaggedOnPad(BeforeDangling, x, "END")) =>
                  Linked(AfterDangling.list, x)]_vars

\* a call with dangling removal alone has erased an item and kept one that
\* has both ends flagged on-pad and no other item and no filled area on
\* either end
W_C36_KeptOnFlagsAlone ==
    /\ pc = "done"
    /\ opts = [mis |-> FALSE, vias |-> FALSE, merge |-> FALSE, del |-> TRUE]
    /\ Len(removed) > 0
    /\ \E x \in Ids :
          /\ Linked(list, x) /\ trk[x].sop /\ trk[x].eop
          /\ \A ep \in EndPoints :
                LET pt == GetEndPoint(trk[x], ep) IN
                OthersAt(Cur, x, pt) = {} /\ ~InZone(Cur, x, pt)

\* ------------------------------------------------- the list across a cleanup
\* C37: no step of a cleanup run adds an item, changes a netcode or changes
\* the order of the items that stay: the list after the step is the list
\* before it without the items the step removed, and a list in netcode
\* order stays in netcode order.
T_C37_ListOnlyShrinks ==
    [][pc # "idle" =>
          /\ list' = SelectSeq(list, LAMBDA x : Linked(list', x))
          /\ \A x \in Ids : Linked(list', x) => trk'[x].net = trk[x].net
          /\ Sorted(list, trk) => Sorted(list', trk')]_vars

\* a call has removed an item that stood between two items that stay, and
\* has moved an end point of an item that stays
W_C37_RemovedFromTheMiddle ==
    /\ pc = "done"
    /\ \E i \in 1..Len(snap.list) : \E j \in 1..Len(snap.list) :
       \E k \in 1..Len(snap.list) :
          /\ i < j /\ j < k
          /\ Linked(list, snap.list[i]) /\ Linked(list, snap.list[k])
          /\ ~Linked(list, snap.list[j])
    /\ \E i \in 1..Len(snap.list) : Linked(list, snap.list[i]) /\ Rewritten(i)

\* ------------------------------------------------------------ the BUSY bit
\* C38: between the passes of a cleanup run no item of the list has BUSY
\* set: the end point test of the dangling pass and the junction test of
\* the merge pass, which set it for a search, have cleared it again.
T_C38_BusyClear ==
    \A x \in Ids : Linked(list, x) => ~trk[x].busy

\* the dangling pass of a call has run and kept a trace with an end off
\* the pads and on a via, the case in which the end point test sets BUSY
\* on the trace
W_C38_TestedAgainstVia ==
    /\ pc = "done" /\ opts.del /\ ~opts.merge
    /\ Len(log) > 0 /\ log[Len(log)] = "deleteDanglingTracks"
    /\ \E x \in Ids : \E ep \in EndPoints :
          /\ Linked(list, x) /\ trk[x].type = "trace"
          /\ ~FlaggedOnPad(Cur, x, "START")
          /\ ~FlaggedOnPad(Cur, x, ep)
          /\ \E v \in OthersAt(Cur, x, GetEndPoint(trk[x], ep)) :
                trk[v].type = "via"
          /\ ~trk[x].busy

\* ------------------------------------------------------ badly connected vias
\* the via's end is nearer to the point than half the via's width
Near(t, pos) ==
    LET dx == pos[1] - t.e[1]
        dy == pos[2] - t.e[2]
    IN  4 * (dx * dx + dy * dy) < t.w * t.w

ViaOn(v, x, pos) ==
    /\ Linked(list, v)
    /\ trk[v].type = "via"
    /\ trk[v].net = trk[x].net
    /\ IsOnLayer(trk[v], GetLayer(trk[x]))
    /\ trk[v].s = pos

\* C40: GetVia answers a via only for a point that is the start or the end
\* of the track; the via it answers is of the track's netcode, on the
\* track's layer, with its start on the point; it answers none when the net
\* has no such via; and the scan ended on the via answered, the first such
\* via it met.
T_C40_GetViaAnswer ==
    last.op = "GetVia" =>
        /\ last.ret # NULL =>
              /\ last.pos \in {trk[last.arg].s, trk[last.arg].e}
              /\ ViaOn(last.ret, last.arg, last.pos)
              /\ last.pre[Len(last.pre)] = last.ret
              /\ \A k \in 1..(Len(last.pre) - 1) :
                    ~ViaOn(last.pre[k], last.arg, last.pos)
        /\ (~\E v \in Ids : ViaOn(v, last.arg, last.pos)) => last.ret = NULL
        /\ last.pos \notin {trk[last.arg].s, trk[last.arg].e} =>
              last.pre = <<>>

\* GetVia has answered a via for an end of a trace after it passed an item
\* that is no such via, and has left an item of the net unvisited
W_C40_StoppedOnFirstVia ==
    /\ last.op = "GetVia" /\ last.ret # NULL
    /\ trk[last.arg].type = "trace"
    /\ Len(last.pre) = 2
    /\ \E y \in Ids : /\ Linked(list, y) /\ trk[y].net = trk[last.arg].net
                      /\ \A k \in 1..2 : last.pre[k] # y
====
